---- MODULE Spec2Model ----
\* TCG event log reader (chrisccoulson/tcglog-parser): the stream readers for the
\* 1.2 and 2.0 record layouts, the log driver (newLogFromReader, NextEvent) and the
\* event-data decoding they depend on, over a byte-level source.
\*
\* The repository holds two copies of the log reader: log.go (errors carried inside
\* the event data, separator classification in the stream reader) and an earlier
\* copy, src/unnamed/part_000 (explicit dataErr, classifySeparatorEvent in
\* NextEvent).  Both are modelled; the variable `copy` says which one drives a run.
EXTENDS Integers, Sequences, FiniteSets, TLC

\* ------------------------------------------------------------------ bounds

\* complete records that follow the first record of a generated log
MaxRecords == 2

\* the most positional arguments the command line is given
MaxArgs == 2

\* the largest offset a source is positioned at when it is opened
MaxStart == 3

\* ------------------------------------------------------------- constants

AlgorithmSha1 == 4
AlgorithmSha256 == 11
AlgorithmSha384 == 12
AlgorithmSha512 == 13
\* an algorithm id outside the registry (TPM_ALG_SM3_256)
AlgorithmSm3 == 18

EventTypeNoAction == 3
EventTypeSeparator == 4
EventTypeAction == 5

maxPCRIndex == 31
separatorEventErrorValue == 1

SpecUnknown == "SpecUnknown"
SpecPCClient == "SpecPCClient"
SpecEFI_1_2 == "SpecEFI_1_2"
SpecEFI_2 == "SpecEFI_2"

knownAlgorithms ==
  (AlgorithmSha1 :> 20) @@ (AlgorithmSha256 :> 32) @@
  (AlgorithmSha384 :> 48) @@ (AlgorithmSha512 :> 64)

isKnownAlgorithm(alg) == alg \in DOMAIN knownAlgorithms

\* ------------------------------------------------------------ byte helpers

Fill(n, b) == [i \in 1..n |-> b]

LE16(n) == <<n % 256, (n \div 256) % 256>>

LE32(n) == <<n % 256, (n \div 256) % 256, (n \div 65536) % 256, (n \div 16777216) % 256>>

\* n bytes of s that follow the (0-based) offset o
Slice(s, o, n) == [i \in 1..n |-> s[o + i]]

U16Of(b) == b[1] + 256 * b[2]

\* a little-endian uint32, every value distinct.  Integers here are 32 bits wide,
\* so a value v from 2^31 on is held as the integer with the same 32 bits,
\* v - 2^32 (0x80000007 as -2147483641, 0xFFFFFFFF as -1); what orders or counts
\* with a uint32 (isPCRIndexInRange, ReadFull, the loops over a count) reads a
\* negative integer as that value
U32Of(b) ==
  b[1] + 256 * b[2] + 65536 * b[3] + 16777216 * (IF b[4] >= 128 THEN b[4] - 256 ELSE b[4])

\* the uint32 before n, for n other than 0
decrement32(n) == IF n = U32Of(<<0, 0, 0, 128>>) THEN 2147483647 ELSE n - 1

Min(a, b) == IF a < b THEN a ELSE b

\* the EFI event types, 0x80000000 + n: the bytes are the little-endian value
EventTypeEFIVariableDriverConfig == U32Of(<<1, 0, 0, 128>>)
EventTypeEFIVariableBoot == U32Of(<<2, 0, 0, 128>>)
EventTypeEFIBootServicesApplication == U32Of(<<3, 0, 0, 128>>)
EventTypeEFIBootServicesDriver == U32Of(<<4, 0, 0, 128>>)
EventTypeEFIRuntimeServicesDriver == U32Of(<<5, 0, 0, 128>>)
EventTypeEFIGPTEvent == U32Of(<<6, 0, 0, 128>>)
EventTypeEFIAction == U32Of(<<7, 0, 0, 128>>)
EventTypeEFIVariableAuthority == U32Of(<<224, 0, 0, 128>>)

zeroDigests == [alg \in DOMAIN knownAlgorithms |-> Fill(knownAlgorithms[alg], 0)]

\* ------------------------------------------------------------------ errors
\* An error value is a tuple of strings; wrapping prepends to the cause.

NoErr == <<>>
EOF == <<"EOF">>
ErrUnexpectedEOF == <<"unexpected EOF">>
ErrFailed == <<"log status inconsistent due to a previous error">>
ErrPCRIndexOutOfRange == <<"out-of-range PCR index">>
ErrUnrecognizedAlgorithm == <<"unrecognized algorithm">>
ErrDuplicateDigest == <<"more than one digest value">>
ErrMissingDigest == <<"missing digest value">>
ErrInvalidSpecIdEvent == <<"invalid SpecIdEvent">>

wrapLogReadError_keepsEOF(origErr, partial) ==
  IF origErr = EOF THEN origErr ELSE <<"error when reading from log stream">> \o origErr

wrapLogReadError(origErr, partial) ==
  IF origErr = EOF
  THEN IF ~partial THEN origErr
       ELSE <<"error when reading from log stream">> \o ErrUnexpectedEOF
  ELSE <<"error when reading from log stream">> \o origErr

isTruncatedLog(err) == err = <<"error when reading from log stream">> \o ErrUnexpectedEOF

wrapSpecIdEventReadError(origErr) ==
  IF origErr = EOF THEN ErrInvalidSpecIdEvent \o <<"not enough data">>
  ELSE ErrInvalidSpecIdEvent \o origErr

isInvalidSpecIdEventError_never(err) == FALSE

isInvalidSpecIdEventError(err) == Len(err) >= 1 /\ err[1] = ErrInvalidSpecIdEvent[1]

\* ---------------------------------------------------------- source reads
\* A read result: the error, the offset the source is left at, the bytes read.

\* io.ReadFull (and binary.Read, which uses it): all n bytes or an error; EOF when
\* no byte was available, unexpected EOF when some but not all were.  A length
\* from 2^31 on (held as a negative integer) is more than a source here holds.
ReadFull(s, o, n) ==
  IF n = 0 THEN [err |-> NoErr, off |-> o, bytes |-> <<>>]
  ELSE IF n > 0 /\ Len(s) - o >= n THEN [err |-> NoErr, off |-> o + n, bytes |-> Slice(s, o, n)]
  ELSE IF Len(s) - o <= 0 THEN [err |-> EOF, off |-> o, bytes |-> <<>>]
  ELSE [err |-> ErrUnexpectedEOF, off |-> Len(s), bytes |-> <<>>]

\* a single Read call on the source: EOF when no byte is left, otherwise the bytes
\* that are available (at most n) with no error; the buffer keeps its zeroes
\* beyond them
ReadOnce(s, o, n) ==
  IF Len(s) - o <= 0 THEN [err |-> EOF, off |-> o, bytes |-> Fill(n, 0)]
  ELSE LET k == Min(n, Len(s) - o) IN
       [err |-> NoErr, off |-> o + k,
        bytes |-> [i \in 1..n |-> IF i <= k THEN s[o + i] ELSE 0]]

\* ------------------------------------------------------------------- hash
\* SHA-1 (FIPS 180-4, 6.1) and SHA-256/384/512 (6.2, 6.4, 6.5), as hash has the
\* standard library compute them.  A word of 32 or 64 bits is the sequence of
\* its 16-bit limbs, most significant first.

errorValue == LE32(separatorEventErrorValue)

hashOfErrorValue ==
  (AlgorithmSha1 :> <<60, 88, 86, 4, 232, 127, 133, 89, 115, 115, 31, 234, 131, 226, 31, 171, 147, 146, 210, 252>>) @@
  (AlgorithmSha256 :> <<103, 171, 221, 114, 16, 36, 240, 255, 78, 11, 63, 76, 47, 193, 59, 197, 186, 212, 45, 11, 120, 81, 212, 86, 216, 141, 32, 61, 21, 170, 164, 80>>) @@
  (AlgorithmSha384 :> <<114, 16, 175, 25, 20, 94, 194, 168, 226, 80, 167, 254, 142, 158, 238, 172, 19, 1, 229, 36, 218, 171, 130, 54, 108, 54, 190, 97, 77, 195, 84, 2, 162, 137, 16, 30, 72, 202, 214, 28, 69, 51, 127, 47, 50, 193, 79, 220>>) @@
  (AlgorithmSha512 :> <<237, 249, 46, 61, 79, 128, 252, 71, 217, 72, 234, 47, 23, 185, 191, 199, 66, 211, 78, 46, 120, 90, 122, 73, 39, 243, 226, 97, 232, 189, 157, 64, 11, 100, 139, 255, 33, 35, 184, 57, 109, 36, 251, 40, 245, 134, 153, 121, 224, 141, 88, 180, 181, 209, 86, 230, 64, 52, 74, 44, 10, 84, 103, 93>>)

hashOfZeroValue ==
  (AlgorithmSha1 :> <<144, 105, 202, 120, 231, 69, 10, 40, 81, 115, 67, 27, 62, 82, 197, 194, 82, 153, 228, 115>>) @@
  (AlgorithmSha256 :> <<223, 63, 97, 152, 4, 169, 47, 219, 64, 87, 25, 45, 196, 61, 215, 72, 234, 119, 138, 220, 82, 188, 73, 140, 232, 5, 36, 192, 20, 184, 17, 25>>) @@
  (AlgorithmSha384 :> <<57, 67, 65, 183, 24, 44, 210, 39, 197, 198, 176, 126, 248, 0, 12, 223, 216, 97, 54, 196, 41, 43, 142, 87, 101, 115, 173, 126, 217, 174, 65, 1, 159, 88, 24, 180, 185, 113, 201, 239, 252, 96, 225, 173, 159, 18, 137, 240>>) @@
  (AlgorithmSha512 :> <<236, 45, 87, 105, 29, 155, 45, 64, 24, 42, 197, 101, 3, 32, 84, 183, 215, 132, 186, 150, 177, 139, 203, 91, 224, 187, 78, 112, 227, 251, 4, 30, 255, 88, 44, 138, 246, 110, 229, 2, 86, 83, 159, 33, 129, 215, 249, 229, 54, 39, 192, 24, 157, 167, 231, 90, 77, 94, 241, 14, 169, 59, 32, 179>>)

xorNibble ==
  << <<0, 1, 2, 3, 4, 5, 6, 7, 8, 9, 10, 11, 12, 13, 14, 15>>,
     <<1, 0, 3, 2, 5, 4, 7, 6, 9, 8, 11, 10, 13, 12, 15, 14>>,
     <<2, 3, 0, 1, 6, 7, 4, 5, 10, 11, 8, 9, 14, 15, 12, 13>>,
     <<3, 2, 1, 0, 7, 6, 5, 4, 11, 10, 9, 8, 15, 14, 13, 12>>,
     <<4, 5, 6, 7, 0, 1, 2, 3, 12, 13, 14, 15, 8, 9, 10, 11>>,
     <<5, 4, 7, 6, 1, 0, 3, 2, 13, 12, 15, 14, 9, 8, 11, 10>>,
     <<6, 7, 4, 5, 2, 3, 0, 1, 14, 15, 12, 13, 10, 11, 8, 9>>,
     <<7, 6, 5, 4, 3, 2, 1, 0, 15, 14, 13, 12, 11, 10, 9, 8>>,
     <<8, 9, 10, 11, 12, 13, 14, 15, 0, 1, 2, 3, 4, 5, 6, 7>>,
     <<9, 8, 11, 10, 13, 12, 15, 14, 1, 0, 3, 2, 5, 4, 7, 6>>,
     <<10, 11, 8, 9, 14, 15, 12, 13, 2, 3, 0, 1, 6, 7, 4, 5>>,
     <<11, 10, 9, 8, 15, 14, 13, 12, 3, 2, 1, 0, 7, 6, 5, 4>>,
     <<12, 13, 14, 15, 8, 9, 10, 11, 4, 5, 6, 7, 0, 1, 2, 3>>,
     <<13, 12, 15, 14, 9, 8, 11, 10, 5, 4, 7, 6, 1, 0, 3, 2>>,
     <<14, 15, 12, 13, 10, 11, 8, 9, 6, 7, 4, 5, 2, 3, 0, 1>>,
     <<15, 14, 13, 12, 11, 10, 9, 8, 7, 6, 5, 4, 3, 2, 1, 0>> >>

andNibble ==
  << <<0, 0, 0, 0, 0, 0, 0, 0, 0, 0, 0, 0, 0, 0, 0, 0>>,
     <<0, 1, 0, 1, 0, 1, 0, 1, 0, 1, 0, 1, 0, 1, 0, 1>>,
     <<0, 0, 2, 2, 0, 0, 2, 2, 0, 0, 2, 2, 0, 0, 2, 2>>,
     <<0, 1, 2, 3, 0, 1, 2, 3, 0, 1, 2, 3, 0, 1, 2, 3>>,
     <<0, 0, 0, 0, 4, 4, 4, 4, 0, 0, 0, 0, 4, 4, 4, 4>>,
     <<0, 1, 0, 1, 4, 5, 4, 5, 0, 1, 0, 1, 4, 5, 4, 5>>,
     <<0, 0, 2, 2, 4, 4, 6, 6, 0, 0, 2, 2, 4, 4, 6, 6>>,
     <<0, 1, 2, 3, 4, 5, 6, 7, 0, 1, 2, 3, 4, 5, 6, 7>>,
     <<0, 0, 0, 0, 0, 0, 0, 0, 8, 8, 8, 8, 8, 8, 8, 8>>,
     <<0, 1, 0, 1, 0, 1, 0, 1, 8, 9, 8, 9, 8, 9, 8, 9>>,
     <<0, 0, 2, 2, 0, 0, 2, 2, 8, 8, 10, 10, 8, 8, 10, 10>>,
     <<0, 1, 2, 3, 0, 1, 2, 3, 8, 9, 10, 11, 8, 9, 10, 11>>,
     <<0, 0, 0, 0, 4, 4, 4, 4, 8, 8, 8, 8, 12, 12, 12, 12>>,
     <<0, 1, 0, 1, 4, 5, 4, 5, 8, 9, 8, 9, 12, 13, 12, 13>>,
     <<0, 0, 2, 2, 4, 4, 6, 6, 8, 8, 10, 10, 12, 12, 14, 14>>,
     <<0, 1, 2, 3, 4, 5, 6, 7, 8, 9, 10, 11, 12, 13, 14, 15>> >>

sha1Init ==
  << <<26437, 8961>>, <<61389, 43913>>, <<39098, 56574>>, <<4146, 21622>>, <<50130, 57840>> >>

sha1K ==
  << <<23170, 31129>>, <<28377, 60321>>, <<36635, 48348>>, <<51810, 49622>> >>

sha256Init ==
  << <<27145, 58983>>, <<47975, 44677>>, <<15470, 62322>>, <<42319, 62778>>,
     <<20750, 21119>>, <<39685, 26764>>, <<8067, 55723>>, <<23520, 52505>> >>

sha256K ==
  << <<17034, 12184>>, <<28983, 17553>>, <<46528, 64463>>, <<59829, 56229>>,
     <<14678, 49755>>, <<23025, 4593>>, <<37439, 33444>>, <<43804, 24277>>,
     <<55303, 43672>>, <<4739, 23297>>, <<9265, 34238>>, <<21772, 32195>>,
     <<29374, 23924>>, <<32990, 45566>>, <<39900, 1703>>, <<49563, 61812>>,
     <<58523, 27073>>, <<61374, 18310>>, <<4033, 40390>>, <<9228, 41420>>,
     <<11753, 11375>>, <<19060, 33962>>, <<23728, 43484>>, <<30457, 35034>>,
     <<38974, 20818>>, <<43057, 50797>>, <<45059, 10184>>, <<48985, 32711>>,
     <<50912, 3059>>, <<54695, 37191>>, <<1738, 25425>>, <<5161, 10599>>,
     <<10167, 2693>>, <<11803, 8504>>, <<19756, 28156>>, <<21304, 3347>>,
     <<25866, 29524>>, <<30314, 2747>>, <<33218, 51502>>, <<37490, 11397>>,
     <<41663, 59553>>, <<43034, 26187>>, <<49739, 35696>>, <<51052, 20899>>,
     <<53650, 59417>>, <<54937, 1572>>, <<62478, 13701>>, <<4202, 41072>>,
     <<6564, 49430>>, <<7735, 27656>>, <<10056, 30540>>, <<13488, 48309>>,
     <<14620, 3251>>, <<20184, 43594>>, <<23452, 51791>>, <<26670, 28659>>,
     <<29839, 33518>>, <<30885, 25455>>, <<33992, 30740>>, <<36039, 520>>,
     <<37054, 65530>>, <<42064, 27883>>, <<48889, 41975>>, <<50801, 30962>> >>

sha384Init ==
  << <<52155, 40285, 49413, 40664>>, <<25242, 10538, 13948, 54535>>,
     <<37209, 346, 12400, 56599>>, <<5423, 60632, 63246, 22841>>,
     <<26419, 9831, 65472, 2865>>, <<36532, 19079, 26712, 5393>>,
     <<56076, 11789, 25849, 36775>>, <<18357, 18461, 48890, 20388>> >>

sha512Init ==
  << <<27145, 58983, 62396, 51464>>, <<47975, 44677, 33994, 42811>>,
     <<15470, 62322, 65172, 63531>>, <<42319, 62778, 24349, 14065>>,
     <<20750, 21119, 44518, 33489>>, <<39685, 26764, 11070, 27679>>,
     <<8067, 55723, 64321, 48491>>, <<23520, 52505, 4990, 8569>> >>

sha512K ==
  << <<17034, 12184, 55080, 44578>>, <<28983, 17553, 9199, 26061>>,
     <<46528, 64463, 60493, 15151>>, <<59829, 56229, 33161, 56252>>,
     <<14678, 49755, 62280, 46392>>, <<23025, 4593, 46597, 53273>>,
     <<37439, 33444, 44825, 20379>>, <<43804, 24277, 55917, 33048>>,
     <<55303, 43672, 41731, 578>>, <<4739, 23297, 17776, 28606>>,
     <<9265, 34238, 20196, 45708>>, <<21772, 32195, 54783, 46306>>,
     <<29374, 23924, 62075, 35183>>, <<32990, 45566, 15126, 38577>>,
     <<39900, 1703, 9671, 4661>>, <<49563, 61812, 53097, 9876>>,
     <<58523, 27073, 40689, 19154>>, <<61374, 18310, 14415, 9699>>,
     <<4033, 40390, 35724, 54709>>, <<9228, 41420, 30636, 40037>>,
     <<11753, 11375, 22827, 629>>, <<19060, 33962, 28326, 58499>>,
     <<23728, 43484, 48449, 64468>>, <<30457, 35034, 33553, 21429>>,
     <<38974, 20818, 61030, 57259>>, <<43057, 50797, 11700, 12816>>,
     <<45059, 10184, 39163, 8511>>, <<48985, 32711, 48879, 3812>>,
     <<50912, 3059, 15784, 36802>>, <<54695, 37191, 37642, 42789>>,
     <<1738, 25425, 57347, 33391>>, <<5161, 10599, 2574, 28272>>,
     <<10167, 2693, 18130, 12284>>, <<11803, 8504, 23590, 51494>>,
     <<19756, 28156, 23236, 10989>>, <<21304, 3347, 40341, 46047>>,
     <<25866, 29524, 35759, 25566>>, <<30314, 2747, 15479, 45736>>,
     <<33218, 51502, 18413, 44774>>, <<37490, 11397, 5250, 13627>>,
     <<41663, 59553, 19697, 868>>, <<43034, 26187, 48194, 12289>>,
     <<49739, 35696, 53496, 38801>>, <<51052, 20899, 1620, 48688>>,
     <<53650, 59417, 55023, 21016>>, <<54937, 1572, 21861, 43280>>,
     <<62478, 13701, 22385, 8234>>, <<4202, 41072, 12987, 53688>>,
     <<6564, 49430, 47314, 53448>>, <<7735, 27656, 20801, 43859>>,
     <<10056, 30540, 57230, 60313>>, <<13488, 48309, 57755, 18600>>,
     <<14620, 3251, 50633, 23139>>, <<20184, 43594, 58177, 35531>>,
     <<23452, 51791, 30563, 58227>>, <<26670, 28659, 54962, 47267>>,
     <<29839, 33518, 24047, 45820>>, <<30885, 25455, 17175, 12128>>,
     <<33992, 30740, 41456, 43890>>, <<36039, 520, 6756, 14828>>,
     <<37054, 65530, 9059, 7720>>, <<42064, 27883, 56962, 48617>>,
     <<48889, 41975, 45766, 30997>>, <<50801, 30962, 58226, 21291>>,
     <<51751, 16078, 59942, 24988>>, <<53638, 47303, 8640, 49671>>,
     <<60122, 32214, 52704, 60190>>, <<62845, 20351, 61038, 53624>>,
     <<1776, 26538, 29207, 28602>>, <<2659, 32197, 41672, 39078>>,
     <<4415, 38916, 48889, 3502>>, <<7025, 2869, 4892, 18203>>,
     <<10459, 30709, 8964, 32132>>, <<13002, 43899, 16583, 9363>>,
     <<15518, 48650, 5577, 48828>>, <<17181, 26564, 39952, 3404>>,
     <<19653, 54462, 52030, 17078>>, <<22911, 10652, 64613, 32298>>,
     <<24523, 28587, 15062, 64236>>, <<27716, 6540, 19015, 22551>> >>

pow16 == <<1, 16, 256, 4096>>

nibble(a, k) == (a \div pow16[k]) % 16

xor16(a, b) ==
  LET t(k) == xorNibble[nibble(a, k) + 1][nibble(b, k) + 1] * pow16[k] IN
  t(1) + t(2) + t(3) + t(4)

and16(a, b) ==
  LET t(k) == andNibble[nibble(a, k) + 1][nibble(b, k) + 1] * pow16[k] IN
  t(1) + t(2) + t(3) + t(4)

wordXor(a, b) == [i \in 1..Len(a) |-> xor16(a[i], b[i])] \o <<>>

wordAnd(a, b) == [i \in 1..Len(a) |-> and16(a[i], b[i])] \o <<>>

wordNot(a) == [i \in 1..Len(a) |-> 65535 - a[i]] \o <<>>

\* the limb i places from the most significant one, around the word
limbAround(a, i) == a[((i - 1) % Len(a)) + 1]

rotr(a, n) ==
  [i \in 1..Len(a) |-> (limbAround(a, i - (n \div 16) - 1) % 2^(n % 16)) * 2^(16 - (n % 16))
                         + (limbAround(a, i - (n \div 16)) \div 2^(n % 16))] \o <<>>

rotl(a, n) == rotr(a, 16 * Len(a) - n)

limbOrZero(a, i) == IF i < 1 THEN 0 ELSE a[i]

shr(a, n) ==
  [i \in 1..Len(a) |-> (limbOrZero(a, i - (n \div 16) - 1) % 2^(n % 16)) * 2^(16 - (n % 16))
                         + (limbOrZero(a, i - (n \div 16)) \div 2^(n % 16))] \o <<>>

RECURSIVE carryInto(_, _, _)
carryInto(a, b, i) ==
  IF i = Len(a) THEN 0 ELSE (a[i + 1] + b[i + 1] + carryInto(a, b, i + 1)) \div 65536

\* a + b modulo 2^w
add(a, b) == [i \in 1..Len(a) |-> (a[i] + b[i] + carryInto(a, b, i)) % 65536] \o <<>>

Ch(x, y, z) == wordXor(wordAnd(x, y), wordAnd(wordNot(x), z))

Maj(x, y, z) == wordXor(wordXor(wordAnd(x, y), wordAnd(x, z)), wordAnd(y, z))

\* the message, a 1 bit, zeroes up to a whole number of blocks, and the bit
\* length of the message as a big-endian integer of blockSize / 8 bytes
padded(data, blockSize) ==
  data \o <<128>>
       \o Fill((blockSize - ((Len(data) + 1 + (blockSize \div 8)) % blockSize)) % blockSize, 0)
       \o [i \in 1..(blockSize \div 8) |->
            IF (blockSize \div 8) - i >= 4 THEN 0
            ELSE ((8 * Len(data)) \div 256^((blockSize \div 8) - i)) % 256]

\* the sixteen words of the n-th block
blockWords(msg, n, limbs) ==
  [t \in 1..16 |->
     [i \in 1..limbs |->
        256 * msg[(n - 1) * 32 * limbs + (t - 1) * 2 * limbs + 2 * i - 1]
          + msg[(n - 1) * 32 * limbs + (t - 1) * 2 * limbs + 2 * i]] \o <<>>] \o <<>>

\* the bytes of the words of a hash value, cut to size bytes
wordBytes(h, size) ==
  LET limbs == Len(h[1]) IN
  [k \in 1..size |->
     LET limb == h[(k - 1) \div (2 * limbs) + 1][((k - 1) % (2 * limbs)) \div 2 + 1] IN
     IF k % 2 = 1 THEN limb \div 256 ELSE limb % 256] \o <<>>

addAll(h, v) == [i \in 1..Len(h) |-> add(h[i], v[i])] \o <<>>

RECURSIVE sha1Schedule(_)
sha1Schedule(w) ==
  IF Len(w) = 80 THEN w
  ELSE LET t == Len(w) + 1 IN
       sha1Schedule(Append(w, rotl(wordXor(wordXor(w[t - 3], w[t - 8]),
                                           wordXor(w[t - 14], w[t - 16])), 1)))

\* Ch, Parity, Maj, Parity, for twenty rounds each
sha1F(t, b, c, d) ==
  IF t <= 20 THEN Ch(b, c, d)
  ELSE IF t > 40 /\ t <= 60 THEN Maj(b, c, d)
  ELSE wordXor(wordXor(b, c), d)

\* the working variables a, b, c, d, e after each round, from the ones before
\* the first round on
RECURSIVE sha1Rounds(_, _)
sha1Rounds(vs, w) ==
  IF Len(vs) = 81 THEN vs[81]
  ELSE LET t == Len(vs)
           v == vs[t] IN
       sha1Rounds(Append(vs, <<add(add(add(rotl(v[1], 5), sha1F(t, v[2], v[3], v[4])),
                                       add(v[5], sha1K[(t - 1) \div 20 + 1])), w[t]),
                               v[1], rotl(v[2], 30), v[3], v[4]>>), w)

RECURSIVE sha1Blocks(_, _, _)
sha1Blocks(h, msg, n) ==
  IF 64 * (n - 1) >= Len(msg) THEN h
  ELSE sha1Blocks(addAll(h, sha1Rounds(<<h>>, sha1Schedule(blockWords(msg, n, 2)))), msg, n + 1)

\* sha1.Sum
sha1_Sum(data) == wordBytes(sha1Blocks(sha1Init, padded(data, 64), 1), 20)

\* the rotation and shift amounts of the functions of SHA-256 and of SHA-512
sha256Shifts ==
  [Sigma0 |-> <<2, 13, 22>>, Sigma1 |-> <<6, 11, 25>>,
   sigma0 |-> <<7, 18, 3>>, sigma1 |-> <<17, 19, 10>>]

sha512Shifts ==
  [Sigma0 |-> <<28, 34, 39>>, Sigma1 |-> <<14, 18, 41>>,
   sigma0 |-> <<1, 8, 7>>, sigma1 |-> <<19, 61, 6>>]

bigSigma(x, s) == wordXor(wordXor(rotr(x, s[1]), rotr(x, s[2])), rotr(x, s[3]))

smallSigma(x, s) == wordXor(wordXor(rotr(x, s[1]), rotr(x, s[2])), shr(x, s[3]))

RECURSIVE sha2Schedule(_, _, _)
sha2Schedule(w, shifts, rounds) ==
  IF Len(w) = rounds THEN w
  ELSE LET t == Len(w) + 1 IN
       sha2Schedule(Append(w, add(add(smallSigma(w[t - 2], shifts.sigma1), w[t - 7]),
                                  add(smallSigma(w[t - 15], shifts.sigma0), w[t - 16]))),
                    shifts, rounds)

sha2Round(v, t1, t2) == <<add(t1, t2), v[1], v[2], v[3], add(v[4], t1), v[5], v[6], v[7]>>

\* the working variables a .. h after each round, from the ones before the first
\* round on
RECURSIVE sha2Rounds(_, _, _, _)
sha2Rounds(vs, w, k, shifts) ==
  IF Len(vs) = Len(k) + 1 THEN vs[Len(vs)]
  ELSE LET t == Len(vs)
           v == vs[t] IN
       sha2Rounds(Append(vs, sha2Round(v, add(add(add(v[8], bigSigma(v[5], shifts.Sigma1)),
                                                  add(Ch(v[5], v[6], v[7]), k[t])), w[t]),
                                          add(bigSigma(v[1], shifts.Sigma0),
                                              Maj(v[1], v[2], v[3])))),
                  w, k, shifts)

RECURSIVE sha2Blocks(_, _, _, _, _)
sha2Blocks(h, msg, k, shifts, n) ==
  IF 32 * Len(k[1]) * (n - 1) >= Len(msg) THEN h
  ELSE sha2Blocks(addAll(h, sha2Rounds(<<h>>, sha2Schedule(blockWords(msg, n, Len(k[1])),
                                                           shifts, Len(k)),
                                       k, shifts)),
                  msg, k, shifts, n + 1)

\* sha256.Sum256
sha256_Sum256(data) ==
  wordBytes(sha2Blocks(sha256Init, padded(data, 64), sha256K, sha256Shifts, 1), 32)

\* sha512.Sum384
sha512_Sum384(data) ==
  wordBytes(sha2Blocks(sha384Init, padded(data, 128), sha512K, sha512Shifts, 1), 48)

\* sha512.Sum512
sha512_Sum512(data) ==
  wordBytes(sha2Blocks(sha512Init, padded(data, 128), sha512K, sha512Shifts, 1), 64)

\* the default branch of hash panics ("Unhandled algorithm")
hashPanics(alg) == ~isKnownAlgorithm(alg)

\* the digests of the values that the logs generated below have hashed, as the
\* functions above compute them: <<algorithm, value>> :> digest
computedDigests ==
  (<<4, <<0, 0, 0, 0, 0, 0, 0, 0, 0, 0, 0, 0, 0, 0, 0, 0, 0, 0, 0, 0, 60, 88, 86, 4, 232, 127, 133, 89, 115, 115, 31, 234, 131, 226, 31, 171, 147, 146, 210, 252>>>> :>
     <<172, 232, 148, 103, 245, 253, 185, 133, 172, 23, 251, 178, 22, 62, 148, 218, 155, 22, 162, 239>>) @@
  (<<4, <<0, 0, 0, 0, 0, 0, 0, 0, 0, 0, 0, 0, 0, 0, 0, 0, 0, 0, 0, 0, 144, 105, 202, 120, 231, 69, 10, 40, 81, 115, 67, 27, 62, 82, 197, 194, 82, 153, 228, 115>>>> :>
     <<178, 168, 59, 14, 191, 47, 131, 116, 41, 154, 91, 43, 223, 195, 30, 169, 85, 173, 114, 54>>) @@
  (<<4, <<38, 78, 30, 236, 247, 124, 190, 51, 44, 189, 9, 254, 72, 100, 96, 215, 134, 210, 97, 10, 60, 88, 86, 4, 232, 127, 133, 89, 115, 115, 31, 234, 131, 226, 31, 171, 147, 146, 210, 252>>>> :>
     <<190, 173, 160, 72, 119, 199, 177, 23, 198, 104, 55, 113, 116, 171, 104, 68, 212, 76, 175, 175>>) @@
  (<<4, <<38, 78, 30, 236, 247, 124, 190, 51, 44, 189, 9, 254, 72, 100, 96, 215, 134, 210, 97, 10, 144, 105, 202, 120, 231, 69, 10, 40, 81, 115, 67, 27, 62, 82, 197, 194, 82, 153, 228, 115>>>> :>
     <<168, 70, 69, 247, 151, 149, 211, 35, 28, 152, 4, 80, 168, 47, 162, 247, 44, 246, 28, 76>>) @@
  (<<4, <<39, 95, 120, 59, 175, 30, 29, 49, 16, 72, 63, 116, 173, 149, 230, 95, 192, 157, 222, 13, 60, 88, 86, 4, 232, 127, 133, 89, 115, 115, 31, 234, 131, 226, 31, 171, 147, 146, 210, 252>>>> :>
     <<42, 228, 242, 32, 23, 109, 77, 138, 199, 161, 210, 156, 11, 120, 198, 154, 98, 74, 205, 140>>) @@
  (<<4, <<39, 95, 120, 59, 175, 30, 29, 49, 16, 72, 63, 116, 173, 149, 230, 95, 192, 157, 222, 13, 144, 105, 202, 120, 231, 69, 10, 40, 81, 115, 67, 27, 62, 82, 197, 194, 82, 153, 228, 115>>>> :>
     <<31, 20, 212, 230, 202, 223, 147, 130, 229, 117, 252, 138, 99, 99, 232, 228, 3, 136, 38, 210>>) @@
  (<<4, <<41, 19, 193, 54, 105, 115, 62, 152, 156, 109, 221, 234, 190, 17, 162, 49, 115, 140, 153, 218, 60, 88, 86, 4, 232, 127, 133, 89, 115, 115, 31, 234, 131, 226, 31, 171, 147, 146, 210, 252>>>> :>
     <<106, 7, 27, 123, 225, 124, 73, 7, 10, 205, 241, 113, 213, 114, 27, 172, 129, 239, 40, 190>>) @@
  (<<4, <<41, 19, 193, 54, 105, 115, 62, 152, 156, 109, 221, 234, 190, 17, 162, 49, 115, 140, 153, 218, 144, 105, 202, 120, 231, 69, 10, 40, 81, 115, 67, 27, 62, 82, 197, 194, 82, 153, 228, 115>>>> :>
     <<18, 10, 86, 198, 211, 162, 250, 231, 72, 21, 74, 225, 127, 215, 56, 115, 35, 196, 174, 205>>) @@
  (<<4, <<42, 109, 109, 65, 36, 177, 236, 131, 164, 213, 166, 145, 17, 251, 35, 113, 30, 54, 23, 15, 60, 88, 86, 4, 232, 127, 133, 89, 115, 115, 31, 234, 131, 226, 31, 171, 147, 146, 210, 252>>>> :>
     <<138, 22, 127, 203, 33, 157, 191, 198, 230, 217, 52, 233, 229, 115, 254, 37, 124, 6, 41, 87>>) @@
  (<<4, <<42, 109, 109, 65, 36, 177, 236, 131, 164, 213, 166, 145, 17, 251, 35, 113, 30, 54, 23, 15, 144, 105, 202, 120, 231, 69, 10, 40, 81, 115, 67, 27, 62, 82, 197, 194, 82, 153, 228, 115>>>> :>
     <<70, 252, 218, 186, 243, 140, 136, 243, 212, 185, 235, 164, 204, 215, 151, 201, 81, 147, 61, 39>>) @@
  (<<4, <<49, 84, 139, 129, 158, 33, 209, 124, 71, 104, 155, 67, 233, 166, 185, 105, 126, 233, 11, 240, 60, 88, 86, 4, 232, 127, 133, 89, 115, 115, 31, 234, 131, 226, 31, 171, 147, 146, 210, 252>>>> :>
     <<39, 95, 120, 59, 175, 30, 29, 49, 16, 72, 63, 116, 173, 149, 230, 95, 192, 157, 222, 13>>) @@
  (<<4, <<49, 84, 139, 129, 158, 33, 209, 124, 71, 104, 155, 67, 233, 166, 185, 105, 126, 233, 11, 240, 144, 105, 202, 120, 231, 69, 10, 40, 81, 115, 67, 27, 62, 82, 197, 194, 82, 153, 228, 115>>>> :>
     <<64, 204, 235, 97, 96, 132, 37, 185, 214, 110, 76, 66, 201, 161, 30, 202, 224, 16, 68, 211>>) @@
  (<<4, <<64, 204, 235, 97, 96, 132, 37, 185, 214, 110, 76, 66, 201, 161, 30, 202, 224, 16, 68, 211, 60, 88, 86, 4, 232, 127, 133, 89, 115, 115, 31, 234, 131, 226, 31, 171, 147, 146, 210, 252>>>> :>
     <<174, 172, 114, 198, 50, 18, 186, 172, 57, 85, 150, 198, 83, 80, 245, 61, 95, 63, 8, 104>>) @@
  (<<4, <<64, 204, 235, 97, 96, 132, 37, 185, 214, 110, 76, 66, 201, 161, 30, 202, 224, 16, 68, 211, 144, 105, 202, 120, 231, 69, 10, 40, 81, 115, 67, 27, 62, 82, 197, 194, 82, 153, 228, 115>>>> :>
     <<20, 12, 229, 41, 172, 198, 89, 240, 159, 23, 7, 187, 24, 119, 71, 28, 28, 24, 168, 24>>) @@
  (<<4, <<70, 252, 218, 186, 243, 140, 136, 243, 212, 185, 235, 164, 204, 215, 151, 201, 81, 147, 61, 39, 60, 88, 86, 4, 232, 127, 133, 89, 115, 115, 31, 234, 131, 226, 31, 171, 147, 146, 210, 252>>>> :>
     <<101, 75, 141, 49, 187, 225, 221, 75, 245, 0, 220, 190, 240, 222, 79, 151, 57, 156, 125, 196>>) @@
  (<<4, <<70, 252, 218, 186, 243, 140, 136, 243, 212, 185, 235, 164, 204, 215, 151, 201, 81, 147, 61, 39, 144, 105, 202, 120, 231, 69, 10, 40, 81, 115, 67, 27, 62, 82, 197, 194, 82, 153, 228, 115>>>> :>
     <<96, 124, 189, 6, 68, 249, 76, 39, 57, 174, 245, 133, 73, 218, 242, 40, 32, 217, 210, 203>>) @@
  (<<4, <<138, 22, 127, 203, 33, 157, 191, 198, 230, 217, 52, 233, 229, 115, 254, 37, 124, 6, 41, 87, 60, 88, 86, 4, 232, 127, 133, 89, 115, 115, 31, 234, 131, 226, 31, 171, 147, 146, 210, 252>>>> :>
     <<195, 182, 252, 206, 215, 174, 247, 64, 216, 13, 153, 190, 193, 57, 98, 32, 65, 239, 241, 195>>) @@
  (<<4, <<138, 22, 127, 203, 33, 157, 191, 198, 230, 217, 52, 233, 229, 115, 254, 37, 124, 6, 41, 87, 144, 105, 202, 120, 231, 69, 10, 40, 81, 115, 67, 27, 62, 82, 197, 194, 82, 153, 228, 115>>>> :>
     <<36, 219, 198, 252, 127, 34, 63, 127, 140, 10, 17, 189, 76, 55, 240, 103, 66, 227, 226, 215>>) @@
  (<<4, <<172, 232, 148, 103, 245, 253, 185, 133, 172, 23, 251, 178, 22, 62, 148, 218, 155, 22, 162, 239, 60, 88, 86, 4, 232, 127, 133, 89, 115, 115, 31, 234, 131, 226, 31, 171, 147, 146, 210, 252>>>> :>
     <<41, 19, 193, 54, 105, 115, 62, 152, 156, 109, 221, 234, 190, 17, 162, 49, 115, 140, 153, 218>>) @@
  (<<4, <<172, 232, 148, 103, 245, 253, 185, 133, 172, 23, 251, 178, 22, 62, 148, 218, 155, 22, 162, 239, 144, 105, 202, 120, 231, 69, 10, 40, 81, 115, 67, 27, 62, 82, 197, 194, 82, 153, 228, 115>>>> :>
     <<38, 78, 30, 236, 247, 124, 190, 51, 44, 189, 9, 254, 72, 100, 96, 215, 134, 210, 97, 10>>) @@
  (<<4, <<178, 168, 59, 14, 191, 47, 131, 116, 41, 154, 91, 43, 223, 195, 30, 169, 85, 173, 114, 54, 60, 88, 86, 4, 232, 127, 133, 89, 115, 115, 31, 234, 131, 226, 31, 171, 147, 146, 210, 252>>>> :>
     <<49, 84, 139, 129, 158, 33, 209, 124, 71, 104, 155, 67, 233, 166, 185, 105, 126, 233, 11, 240>>) @@
  (<<4, <<178, 168, 59, 14, 191, 47, 131, 116, 41, 154, 91, 43, 223, 195, 30, 169, 85, 173, 114, 54, 144, 105, 202, 120, 231, 69, 10, 40, 81, 115, 67, 27, 62, 82, 197, 194, 82, 153, 228, 115>>>> :>
     <<42, 109, 109, 65, 36, 177, 236, 131, 164, 213, 166, 145, 17, 251, 35, 113, 30, 54, 23, 15>>) @@
  (<<11, <<0, 0, 0, 0, 0, 0, 0, 0, 0, 0, 0, 0, 0, 0, 0, 0, 0, 0, 0, 0, 0, 0, 0, 0, 0, 0, 0, 0, 0, 0, 0, 0, 103, 171, 221, 114, 16, 36, 240, 255, 78, 11, 63, 76, 47, 193, 59, 197, 186, 212, 45, 11>>>> :>
     <<234, 222, 72, 104, 169, 122, 177, 9, 121, 176, 151, 86, 122, 233, 150, 210, 112, 34, 39, 7, 40, 27, 64, 55, 31, 37, 90, 27, 18, 232, 29, 188>>) @@
  (<<11, <<0, 0, 0, 0, 0, 0, 0, 0, 0, 0, 0, 0, 0, 0, 0, 0, 0, 0, 0, 0, 0, 0, 0, 0, 0, 0, 0, 0, 0, 0, 0, 0, 223, 63, 97, 152, 4, 169, 47, 219, 64, 87, 25, 45, 196, 61, 215, 72, 234, 119, 138, 220>>>> :>
     <<216, 57, 32, 143, 225, 247, 179, 9, 48, 194, 255, 71, 36, 223, 210, 186, 9, 220, 218, 24, 58, 234, 233, 54, 163, 158, 36, 30, 50, 112, 9, 206>>) @@
  (<<11, <<109, 206, 77, 128, 99, 68, 16, 229, 212, 137, 30, 179, 95, 178, 26, 25, 26, 171, 83, 180, 77, 245, 47, 225, 72, 140, 106, 109, 131, 96, 145, 255, 103, 171, 221, 114, 16, 36, 240, 255, 78, 11, 63, 76, 47, 193, 59, 197, 186, 212, 45, 11>>>> :>
     <<62, 30, 64, 107, 192, 17, 147, 70, 62, 50, 12, 38, 119, 115, 155, 38, 70, 182, 240, 154, 32, 29, 43, 146, 148, 110, 140, 162, 55, 109, 201, 74>>) @@
  (<<11, <<109, 206, 77, 128, 99, 68, 16, 229, 212, 137, 30, 179, 95, 178, 26, 25, 26, 171, 83, 180, 77, 245, 47, 225, 72, 140, 106, 109, 131, 96, 145, 255, 223, 63, 97, 152, 4, 169, 47, 219, 64, 87, 25, 45, 196, 61, 215, 72, 234, 119, 138, 220>>>> :>
     <<192, 71, 196, 176, 115, 177, 119, 206, 102, 99, 72, 42, 222, 73, 16, 248, 210, 157, 71, 49, 44, 190, 143, 199, 208, 224, 179, 164, 252, 125, 251, 13>>) @@
  (<<11, <<113, 53, 215, 153, 97, 113, 107, 111, 226, 186, 230, 207, 81, 79, 243, 175, 193, 155, 95, 169, 211, 73, 73, 204, 97, 104, 238, 42, 242, 1, 180, 118, 103, 171, 221, 114, 16, 36, 240, 255, 78, 11, 63, 76, 47, 193, 59, 197, 186, 212, 45, 11>>>> :>
     <<165, 140, 20, 152, 41, 23, 181, 24, 253, 8, 20, 138, 182, 171, 58, 17, 242, 234, 224, 178, 41, 107, 128, 194, 147, 109, 1, 200, 193, 235, 178, 141>>) @@
  (<<11, <<113, 53, 215, 153, 97, 113, 107, 111, 226, 186, 230, 207, 81, 79, 243, 175, 193, 155, 95, 169, 211, 73, 73, 204, 97, 104, 238, 42, 242, 1, 180, 118, 223, 63, 97, 152, 4, 169, 47, 219, 64, 87, 25, 45, 196, 61, 215, 72, 234, 119, 138, 220>>>> :>
     <<141, 61, 134, 159, 12, 121, 225, 91, 125, 73, 45, 64, 94, 223, 124, 56, 180, 164, 154, 72, 188, 92, 106, 164, 115, 246, 15, 208, 39, 236, 192, 81>>) @@
  (<<11, <<124, 26, 253, 132, 232, 79, 17, 188, 18, 28, 243, 55, 189, 181, 171, 17, 246, 179, 58, 49, 138, 121, 246, 121, 97, 44, 174, 95, 215, 33, 158, 197, 103, 171, 221, 114, 16, 36, 240, 255, 78, 11, 63, 76, 47, 193, 59, 197, 186, 212, 45, 11>>>> :>
     <<36, 193, 35, 187, 66, 95, 159, 74, 184, 242, 173, 63, 167, 63, 162, 192, 60, 53, 19, 145, 146, 243, 120, 202, 114, 77, 111, 73, 212, 223, 90, 206>>) @@
  (<<11, <<124, 26, 253, 132, 232, 79, 17, 188, 18, 28, 243, 55, 189, 181, 171, 17, 246, 179, 58, 49, 138, 121, 246, 121, 97, 44, 174, 95, 215, 33, 158, 197, 223, 63, 97, 152, 4, 169, 47, 219, 64, 87, 25, 45, 196, 61, 215, 72, 234, 119, 138, 220>>>> :>
     <<188, 137, 205, 213, 189, 231, 156, 254, 105, 232, 83, 35, 181, 21, 171, 193, 11, 80, 230, 90, 78, 205, 199, 226, 207, 151, 191, 158, 222, 229, 167, 81>>) @@
  (<<11, <<135, 119, 81, 250, 19, 60, 2, 53, 50, 9, 184, 115, 204, 90, 9, 226, 180, 48, 94, 8, 252, 107, 78, 142, 223, 53, 27, 28, 47, 129, 98, 57, 103, 171, 221, 114, 16, 36, 240, 255, 78, 11, 63, 76, 47, 193, 59, 197, 186, 212, 45, 11>>>> :>
     <<157, 221, 135, 144, 146, 72, 162, 72, 110, 232, 239, 156, 104, 197, 201, 21, 126, 9, 35, 131, 51, 79, 41, 27, 209, 95, 31, 31, 212, 229, 231, 184>>) @@
  (<<11, <<148, 144, 54, 211, 206, 225, 29, 73, 1, 225, 184, 15, 140, 177, 180, 158, 247, 123, 183, 153, 59, 64, 79, 253, 64, 110, 79, 210, 6, 98, 151, 43, 103, 171, 221, 114, 16, 36, 240, 255, 78, 11, 63, 76, 47, 193, 59, 197, 186, 212, 45, 11>>>> :>
     <<182, 165, 228, 121, 91, 125, 49, 156, 36, 177, 94, 253, 220, 151, 216, 230, 1, 16, 77, 121, 29, 186, 168, 29, 59, 149, 190, 102, 230, 107, 33, 25>>) @@
  (<<11, <<148, 144, 54, 211, 206, 225, 29, 73, 1, 225, 184, 15, 140, 177, 180, 158, 247, 123, 183, 153, 59, 64, 79, 253, 64, 110, 79, 210, 6, 98, 151, 43, 223, 63, 97, 152, 4, 169, 47, 219, 64, 87, 25, 45, 196, 61, 215, 72, 234, 119, 138, 220>>>> :>
     <<88, 21, 205, 6, 255, 201, 142, 31, 47, 44, 22, 67, 66, 179, 109, 44, 55, 12, 204, 171, 87, 206, 218, 17, 90, 196, 32, 170, 180, 85, 207, 171>>) @@
  (<<11, <<216, 57, 32, 143, 225, 247, 179, 9, 48, 194, 255, 71, 36, 223, 210, 186, 9, 220, 218, 24, 58, 234, 233, 54, 163, 158, 36, 30, 50, 112, 9, 206, 103, 171, 221, 114, 16, 36, 240, 255, 78, 11, 63, 76, 47, 193, 59, 197, 186, 212, 45, 11>>>> :>
     <<113, 53, 215, 153, 97, 113, 107, 111, 226, 186, 230, 207, 81, 79, 243, 175, 193, 155, 95, 169, 211, 73, 73, 204, 97, 104, 238, 42, 242, 1, 180, 118>>) @@
  (<<11, <<216, 57, 32, 143, 225, 247, 179, 9, 48, 194, 255, 71, 36, 223, 210, 186, 9, 220, 218, 24, 58, 234, 233, 54, 163, 158, 36, 30, 50, 112, 9, 206, 223, 63, 97, 152, 4, 169, 47, 219, 64, 87, 25, 45, 196, 61, 215, 72, 234, 119, 138, 220>>>> :>
     <<109, 206, 77, 128, 99, 68, 16, 229, 212, 137, 30, 179, 95, 178, 26, 25, 26, 171, 83, 180, 77, 245, 47, 225, 72, 140, 106, 109, 131, 96, 145, 255>>) @@
  (<<11, <<234, 222, 72, 104, 169, 122, 177, 9, 121, 176, 151, 86, 122, 233, 150, 210, 112, 34, 39, 7, 40, 27, 64, 55, 31, 37, 90, 27, 18, 232, 29, 188, 103, 171, 221, 114, 16, 36, 240, 255, 78, 11, 63, 76, 47, 193, 59, 197, 186, 212, 45, 11>>>> :>
     <<124, 26, 253, 132, 232, 79, 17, 188, 18, 28, 243, 55, 189, 181, 171, 17, 246, 179, 58, 49, 138, 121, 246, 121, 97, 44, 174, 95, 215, 33, 158, 197>>) @@
  (<<11, <<234, 222, 72, 104, 169, 122, 177, 9, 121, 176, 151, 86, 122, 233, 150, 210, 112, 34, 39, 7, 40, 27, 64, 55, 31, 37, 90, 27, 18, 232, 29, 188, 223, 63, 97, 152, 4, 169, 47, 219, 64, 87, 25, 45, 196, 61, 215, 72, 234, 119, 138, 220>>>> :>
     <<148, 144, 54, 211, 206, 225, 29, 73, 1, 225, 184, 15, 140, 177, 180, 158, 247, 123, 183, 153, 59, 64, 79, 253, 64, 110, 79, 210, 6, 98, 151, 43>>) @@
  (<<11, <<243, 25, 139, 148, 147, 234, 158, 251, 168, 208, 35, 41, 35, 86, 231, 16, 14, 31, 111, 59, 43, 132, 154, 129, 217, 89, 139, 85, 53, 58, 241, 153, 103, 171, 221, 114, 16, 36, 240, 255, 78, 11, 63, 76, 47, 193, 59, 197, 186, 212, 45, 11>>>> :>
     <<135, 119, 81, 250, 19, 60, 2, 53, 50, 9, 184, 115, 204, 90, 9, 226, 180, 48, 94, 8, 252, 107, 78, 142, 223, 53, 27, 28, 47, 129, 98, 57>>) @@
  (<<11, <<245, 165, 253, 66, 209, 106, 32, 48, 39, 152, 239, 110, 211, 9, 151, 155, 67, 0, 61, 35, 32, 217, 240, 232, 234, 152, 49, 169, 39, 89, 251, 75, 103, 171, 221, 114, 16, 36, 240, 255, 78, 11, 63, 76, 47, 193, 59, 197, 186, 212, 45, 11>>>> :>
     <<243, 25, 139, 148, 147, 234, 158, 251, 168, 208, 35, 41, 35, 86, 231, 16, 14, 31, 111, 59, 43, 132, 154, 129, 217, 89, 139, 85, 53, 58, 241, 153>>) @@
  (<<11, <<0, 0, 0, 0, 0, 0, 0, 0, 0, 0, 0, 0, 0, 0, 0, 0, 0, 0, 0, 0, 0, 0, 0, 0, 0, 0, 0, 0, 0, 0, 0, 0, 0, 0, 0, 0, 0, 0, 0, 0, 0, 0, 0, 0, 0, 0, 0, 0, 0, 0, 0, 0, 0, 0, 0, 0, 0, 0, 0, 0, 0, 0, 0, 0>>>> :>
     <<245, 165, 253, 66, 209, 106, 32, 48, 39, 152, 239, 110, 211, 9, 151, 155, 67, 0, 61, 35, 32, 217, 240, 232, 234, 152, 49, 169, 39, 89, 251, 75>>) @@
  (<<11, <<0, 0, 0, 0, 0, 0, 0, 0, 0, 0, 0, 0, 0, 0, 0, 0, 0, 0, 0, 0, 0, 0, 0, 0, 0, 0, 0, 0, 0, 0, 0, 0, 103, 171, 221, 114, 16, 36, 240, 255, 78, 11, 63, 76, 47, 193, 59, 197, 186, 212, 45, 11, 120, 81, 212, 86, 216, 141, 32, 61, 21, 170, 164, 80>>>> :>
     <<72, 107, 16, 105, 89, 231, 126, 35, 244, 100, 251, 143, 68, 59, 54, 212, 124, 50, 211, 150, 192, 133, 145, 198, 52, 254, 146, 132, 124, 91, 101, 201>>) @@
  (<<11, <<0, 0, 0, 0, 0, 0, 0, 0, 0, 0, 0, 0, 0, 0, 0, 0, 0, 0, 0, 0, 0, 0, 0, 0, 0, 0, 0, 0, 0, 0, 0, 0, 223, 63, 97, 152, 4, 169, 47, 219, 64, 87, 25, 45, 196, 61, 215, 72, 234, 119, 138, 220, 82, 188, 73, 140, 232, 5, 36, 192, 20, 184, 17, 25>>>> :>
     <<61, 69, 140, 254, 85, 204, 3, 234, 31, 68, 63, 21, 98, 190, 236, 141, 245, 28, 117, 225, 74, 159, 207, 154, 114, 52, 161, 63, 25, 142, 121, 105>>) @@
  (<<11, <<61, 69, 140, 254, 85, 204, 3, 234, 31, 68, 63, 21, 98, 190, 236, 141, 245, 28, 117, 225, 74, 159, 207, 154, 114, 52, 161, 63, 25, 142, 121, 105, 103, 171, 221, 114, 16, 36, 240, 255, 78, 11, 63, 76, 47, 193, 59, 197, 186, 212, 45, 11, 120, 81, 212, 86, 216, 141, 32, 61, 21, 170, 164, 80>>>> :>
     <<228, 39, 237, 119, 124, 214, 196, 98, 65, 172, 83, 64, 246, 158, 82, 36, 227, 93, 87, 125, 86, 84, 226, 189, 132, 3, 13, 231, 159, 174, 147, 90>>) @@
  (<<11, <<61, 69, 140, 254, 85, 204, 3, 234, 31, 68, 63, 21, 98, 190, 236, 141, 245, 28, 117, 225, 74, 159, 207, 154, 114, 52, 161, 63, 25, 142, 121, 105, 223, 63, 97, 152, 4, 169, 47, 219, 64, 87, 25, 45, 196, 61, 215, 72, 234, 119, 138, 220, 82, 188, 73, 140, 232, 5, 36, 192, 20, 184, 17, 25>>>> :>
     <<241, 161, 66, 197, 53, 134, 231, 226, 34, 62, 199, 78, 95, 77, 26, 73, 66, 149, 107, 31, 217, 172, 120, 250, 252, 223, 133, 17, 122, 163, 69, 218>>) @@
  (<<11, <<72, 107, 16, 105, 89, 231, 126, 35, 244, 100, 251, 143, 68, 59, 54, 212, 124, 50, 211, 150, 192, 133, 145, 198, 52, 254, 146, 132, 124, 91, 101, 201, 103, 171, 221, 114, 16, 36, 240, 255, 78, 11, 63, 76, 47, 193, 59, 197, 186, 212, 45, 11, 120, 81, 212, 86, 216, 141, 32, 61, 21, 170, 164, 80>>>> :>
     <<238, 53, 23, 244, 213, 254, 203, 188, 100, 218, 195, 14, 179, 23, 30, 186, 3, 255, 40, 119, 38, 120, 10, 32, 23, 98, 62, 124, 181, 212, 136, 144>>) @@
  (<<11, <<72, 107, 16, 105, 89, 231, 126, 35, 244, 100, 251, 143, 68, 59, 54, 212, 124, 50, 211, 150, 192, 133, 145, 198, 52, 254, 146, 132, 124, 91, 101, 201, 223, 63, 97, 152, 4, 169, 47, 219, 64, 87, 25, 45, 196, 61, 215, 72, 234, 119, 138, 220, 82, 188, 73, 140, 232, 5, 36, 192, 20, 184, 17, 25>>>> :>
     <<155, 116, 113, 213, 238, 12, 254, 230, 58, 253, 83, 136, 192, 81, 178, 194, 51, 48, 173, 186, 137, 1, 193, 77, 110, 185, 204, 246, 30, 187, 92, 114>>) @@
  (<<11, <<91, 154, 65, 18, 134, 62, 75, 187, 177, 189, 201, 221, 13, 19, 174, 76, 135, 253, 94, 194, 117, 156, 158, 82, 233, 155, 54, 123, 164, 22, 207, 107, 103, 171, 221, 114, 16, 36, 240, 255, 78, 11, 63, 76, 47, 193, 59, 197, 186, 212, 45, 11, 120, 81, 212, 86, 216, 141, 32, 61, 21, 170, 164, 80>>>> :>
     <<128, 153, 60, 117, 217, 100, 169, 43, 68, 154, 165, 48, 174, 102, 173, 23, 0, 73, 212, 234, 142, 135, 101, 60, 232, 135, 44, 224, 40, 52, 37, 60>>) @@
  (<<11, <<155, 116, 113, 213, 238, 12, 254, 230, 58, 253, 83, 136, 192, 81, 178, 194, 51, 48, 173, 186, 137, 1, 193, 77, 110, 185, 204, 246, 30, 187, 92, 114, 103, 171, 221, 114, 16, 36, 240, 255, 78, 11, 63, 76, 47, 193, 59, 197, 186, 212, 45, 11, 120, 81, 212, 86, 216, 141, 32, 61, 21, 170, 164, 80>>>> :>
     <<179, 173, 52, 70, 156, 100, 47, 213, 43, 205, 246, 122, 70, 100, 131, 206, 184, 94, 113, 199, 104, 245, 60, 11, 215, 117, 79, 69, 146, 212, 205, 208>>) @@
  (<<11, <<155, 116, 113, 213, 238, 12, 254, 230, 58, 253, 83, 136, 192, 81, 178, 194, 51, 48, 173, 186, 137, 1, 193, 77, 110, 185, 204, 246, 30, 187, 92, 114, 223, 63, 97, 152, 4, 169, 47, 219, 64, 87, 25, 45, 196, 61, 215, 72, 234, 119, 138, 220, 82, 188, 73, 140, 232, 5, 36, 192, 20, 184, 17, 25>>>> :>
     <<90, 246, 213, 150, 18, 98, 23, 59, 163, 154, 109, 50, 226, 194, 34, 177, 163, 180, 31, 56, 65, 235, 231, 38, 163, 87, 10, 125, 14, 27, 209, 103>>) @@
  (<<11, <<228, 39, 237, 119, 124, 214, 196, 98, 65, 172, 83, 64, 246, 158, 82, 36, 227, 93, 87, 125, 86, 84, 226, 189, 132, 3, 13, 231, 159, 174, 147, 90, 103, 171, 221, 114, 16, 36, 240, 255, 78, 11, 63, 76, 47, 193, 59, 197, 186, 212, 45, 11, 120, 81, 212, 86, 216, 141, 32, 61, 21, 170, 164, 80>>>> :>
     <<85, 34, 161, 160, 21, 230, 28, 65, 191, 198, 49, 145, 151, 174, 124, 36, 95, 172, 108, 128, 60, 32, 236, 168, 82, 11, 100, 140, 212, 223, 127, 162>>) @@
  (<<11, <<228, 39, 237, 119, 124, 214, 196, 98, 65, 172, 83, 64, 246, 158, 82, 36, 227, 93, 87, 125, 86, 84, 226, 189, 132, 3, 13, 231, 159, 174, 147, 90, 223, 63, 97, 152, 4, 169, 47, 219, 64, 87, 25, 45, 196, 61, 215, 72, 234, 119, 138, 220, 82, 188, 73, 140, 232, 5, 36, 192, 20, 184, 17, 25>>>> :>
     <<69, 11, 242, 51, 3, 37, 177, 165, 164, 243, 249, 254, 83, 230, 60, 43, 96, 128, 206, 41, 51, 79, 158, 243, 33, 33, 138, 126, 158, 21, 136, 36>>) @@
  (<<11, <<238, 53, 23, 244, 213, 254, 203, 188, 100, 218, 195, 14, 179, 23, 30, 186, 3, 255, 40, 119, 38, 120, 10, 32, 23, 98, 62, 124, 181, 212, 136, 144, 103, 171, 221, 114, 16, 36, 240, 255, 78, 11, 63, 76, 47, 193, 59, 197, 186, 212, 45, 11, 120, 81, 212, 86, 216, 141, 32, 61, 21, 170, 164, 80>>>> :>
     <<139, 49, 132, 19, 227, 131, 237, 131, 143, 174, 149, 199, 55, 231, 201, 1, 81, 43, 32, 193, 244, 159, 62, 74, 228, 205, 247, 13, 146, 101, 200, 169>>) @@
  (<<11, <<238, 53, 23, 244, 213, 254, 203, 188, 100, 218, 195, 14, 179, 23, 30, 186, 3, 255, 40, 119, 38, 120, 10, 32, 23, 98, 62, 124, 181, 212, 136, 144, 223, 63, 97, 152, 4, 169, 47, 219, 64, 87, 25, 45, 196, 61, 215, 72, 234, 119, 138, 220, 82, 188, 73, 140, 232, 5, 36, 192, 20, 184, 17, 25>>>> :>
     <<54, 251, 209, 96, 92, 232, 45, 90, 106, 172, 104, 148, 127, 229, 140, 167, 143, 226, 6, 238, 53, 208, 183, 80, 129, 232, 188, 23, 47, 51, 41, 147>>) @@
  (<<11, <<241, 161, 66, 197, 53, 134, 231, 226, 34, 62, 199, 78, 95, 77, 26, 73, 66, 149, 107, 31, 217, 172, 120, 250, 252, 223, 133, 17, 122, 163, 69, 218, 103, 171, 221, 114, 16, 36, 240, 255, 78, 11, 63, 76, 47, 193, 59, 197, 186, 212, 45, 11, 120, 81, 212, 86, 216, 141, 32, 61, 21, 170, 164, 80>>>> :>
     <<97, 46, 35, 84, 106, 67, 58, 182, 251, 116, 50, 142, 149, 67, 150, 88, 16, 182, 44, 125, 123, 233, 64, 0, 111, 133, 99, 34, 112, 186, 43, 82>>) @@
  (<<11, <<241, 161, 66, 197, 53, 134, 231, 226, 34, 62, 199, 78, 95, 77, 26, 73, 66, 149, 107, 31, 217, 172, 120, 250, 252, 223, 133, 17, 122, 163, 69, 218, 223, 63, 97, 152, 4, 169, 47, 219, 64, 87, 25, 45, 196, 61, 215, 72, 234, 119, 138, 220, 82, 188, 73, 140, 232, 5, 36, 192, 20, 184, 17, 25>>>> :>
     <<46, 150, 89, 125, 158, 174, 115, 81, 107, 47, 192, 132, 179, 162, 28, 127, 165, 127, 45, 40, 29, 22, 79, 62, 173, 173, 5, 34, 83, 111, 16, 28>>) @@
  (<<11, <<245, 165, 253, 66, 209, 106, 32, 48, 39, 152, 239, 110, 211, 9, 151, 155, 67, 0, 61, 35, 32, 217, 240, 232, 234, 152, 49, 169, 39, 89, 251, 75, 103, 171, 221, 114, 16, 36, 240, 255, 78, 11, 63, 76, 47, 193, 59, 197, 186, 212, 45, 11, 120, 81, 212, 86, 216, 141, 32, 61, 21, 170, 164, 80>>>> :>
     <<246, 149, 172, 26, 177, 171, 211, 20, 236, 194, 89, 137, 128, 16, 106, 157, 20, 10, 194, 128, 93, 57, 78, 254, 170, 58, 78, 170, 74, 172, 22, 145>>) @@
  (<<11, <<246, 149, 172, 26, 177, 171, 211, 20, 236, 194, 89, 137, 128, 16, 106, 157, 20, 10, 194, 128, 93, 57, 78, 254, 170, 58, 78, 170, 74, 172, 22, 145, 103, 171, 221, 114, 16, 36, 240, 255, 78, 11, 63, 76, 47, 193, 59, 197, 186, 212, 45, 11, 120, 81, 212, 86, 216, 141, 32, 61, 21, 170, 164, 80>>>> :>
     <<91, 154, 65, 18, 134, 62, 75, 187, 177, 189, 201, 221, 13, 19, 174, 76, 135, 253, 94, 194, 117, 156, 158, 82, 233, 155, 54, 123, 164, 22, 207, 107>>)

hash(data, alg) ==
  IF data = errorValue THEN hashOfErrorValue[alg]
  ELSE IF data = LE32(0) THEN hashOfZeroValue[alg]
  ELSE IF <<alg, data>> \in DOMAIN computedDigests THEN computedDigests[<<alg, data>>]
  ELSE CASE alg = AlgorithmSha1 -> sha1_Sum(data)
         [] alg = AlgorithmSha256 -> sha256_Sum256(data)
         [] alg = AlgorithmSha384 -> sha512_Sum384(data)
         [] alg = AlgorithmSha512 -> sha512_Sum512(data)

isDigestOfSeparatorErrorValue(digest, alg) == digest = hash(errorValue, alg)

\* ------------------------------------------------------ event data decoding
\* Decoded event data: the variant, the fields of the variants the log driver
\* looks at, and the payload bytes every variant retains.

MkData(variant, data) ==
  [variant |-> variant, Spec |-> SpecUnknown, DigestSizes |-> <<>>,
   isError |-> FALSE, Error |-> NoErr, data |-> data]

NilData == MkData("nil", <<>>)

Sig(last2) == <<83, 112, 101, 99, 32, 73, 68, 32, 69, 118, 101, 110, 116>> \o last2 \o <<0>>
SigSpecId00 == Sig(<<48, 48>>)
SigSpecId02 == Sig(<<48, 50>>)
SigSpecId03 == Sig(<<48, 51>>)
SigSP800155 == <<83, 80, 56, 48, 48, 45, 49, 53, 53, 32, 69, 118, 101, 110, 116, 0>>
SigStartupLocality == <<83, 116, 97, 114, 116, 117, 112, 76, 111, 99, 97, 108, 105, 116, 121, 0>>

\* vendorInfoSize (uint8) and vendorInfo, read at offset o of the payload
parseVendorInfo(data, o) ==
  LET r1 == ReadFull(data, o, 1) IN
  IF r1.err # NoErr THEN [err |-> wrapSpecIdEventReadError(r1.err), off |-> r1.off]
  ELSE LET r2 == ReadFull(data, r1.off, r1.bytes[1]) IN
       IF r2.err # NoErr THEN [err |-> wrapSpecIdEventReadError(r2.err), off |-> r2.off]
       ELSE [err |-> NoErr, off |-> r2.off]

parsePCClientSpecIdEvent(data, o) ==
  LET v == parseVendorInfo(data, o) IN
  [err |-> v.err, Spec |-> SpecPCClient, DigestSizes |-> <<>>]

parseEFI_1_2_SpecIdEvent(data, o) ==
  LET v == parseVendorInfo(data, o) IN
  [err |-> v.err, Spec |-> SpecEFI_1_2, DigestSizes |-> <<>>]

\* numberOfAlgorithms pairs of (uint16 AlgorithmId, uint16 DigestSize)
RECURSIVE readAlgorithmSizes(_, _, _, _)
readAlgorithmSizes(data, o, n, acc) ==
  IF n = 0 THEN [err |-> NoErr, off |-> o, sizes |-> acc]
  ELSE LET r == ReadFull(data, o, 4) IN
       IF r.err # NoErr
       THEN [err |-> wrapSpecIdEventReadError(r.err), off |-> r.off, sizes |-> acc]
       ELSE readAlgorithmSizes(data, r.off, decrement32(n),
              Append(acc, [AlgorithmId |-> U16Of(SubSeq(r.bytes, 1, 2)),
                           DigestSize |-> U16Of(SubSeq(r.bytes, 3, 4))]))

parseEFI_2_SpecIdEvent(data, o) ==
  LET r1 == ReadFull(data, o, 4) IN
  IF r1.err # NoErr
  THEN [err |-> wrapSpecIdEventReadError(r1.err), Spec |-> SpecEFI_2, DigestSizes |-> <<>>]
  ELSE LET a == readAlgorithmSizes(data, r1.off, U32Of(r1.bytes), <<>>) IN
       IF a.err # NoErr THEN [err |-> a.err, Spec |-> SpecEFI_2, DigestSizes |-> a.sizes]
       ELSE [err |-> parseVendorInfo(data, a.off).err, Spec |-> SpecEFI_2,
             DigestSizes |-> a.sizes]

\* the helper of the variant, passed by name
helperCall(helper, data, o) ==
  IF helper = "parsePCClientSpecIdEvent" THEN parsePCClientSpecIdEvent(data, o)
  ELSE IF helper = "parseEFI_1_2_SpecIdEvent" THEN parseEFI_1_2_SpecIdEvent(data, o)
  ELSE parseEFI_2_SpecIdEvent(data, o)

\* the common header (8 bytes after the signature), then the helper of the variant
decodeSpecIdEvent(data, helper) ==
  LET r == ReadFull(data, 16, 8) IN
  IF r.err # NoErr THEN [out |-> NilData, err |-> wrapSpecIdEventReadError(r.err), trailingBytes |-> 0]
  ELSE LET h == helperCall(helper, data, r.off) IN
       IF h.err # NoErr THEN [out |-> NilData, err |-> h.err, trailingBytes |-> 0]
       ELSE [out |-> [MkData("SpecIdEventData", data) EXCEPT
                        !.Spec = h.Spec, !.DigestSizes = h.DigestSizes],
             err |-> NoErr, trailingBytes |-> 0]

decodeBIMReferenceManifestEvent(data) ==
  LET r == ReadFull(data, 16, 16) IN
  IF r.err # NoErr THEN [out |-> NilData, err |-> r.err, trailingBytes |-> 0]
  ELSE [out |-> MkData("bimReferenceManifestEventData", data), err |-> NoErr, trailingBytes |-> 0]

decodeStartupLocalityEvent(data) ==
  LET r == ReadFull(data, 16, 1) IN
  IF r.err # NoErr THEN [out |-> NilData, err |-> r.err, trailingBytes |-> 0]
  ELSE [out |-> MkData("startupLocalityEventData", data), err |-> NoErr, trailingBytes |-> 0]

decodeEventDataNoAction_strict(data) ==
  LET sg == ReadFull(data, 0, 16) IN
  IF sg.err # NoErr THEN [out |-> NilData, err |-> sg.err, trailingBytes |-> 0]
  ELSE IF sg.bytes = SigSpecId00 THEN decodeSpecIdEvent(data, "parsePCClientSpecIdEvent")
  ELSE IF sg.bytes = SigSpecId02 THEN decodeSpecIdEvent(data, "parseEFI_1_2_SpecIdEvent")
  ELSE IF sg.bytes = SigSpecId03 THEN decodeSpecIdEvent(data, "parseEFI_2_SpecIdEvent")
  ELSE IF sg.bytes = SigSP800155 THEN decodeBIMReferenceManifestEvent(data)
  ELSE IF sg.bytes = SigStartupLocality THEN decodeStartupLocalityEvent(data)
  ELSE [out |-> NilData, err |-> <<"unknown signature">>, trailingBytes |-> 0]

decodeEventDataNoAction(data) ==
  LET sg == ReadFull(data, 0, 16) IN
  IF sg.err # NoErr THEN [out |-> NilData, err |-> sg.err, trailingBytes |-> 0]
  ELSE IF sg.bytes = SigSpecId00 THEN decodeSpecIdEvent(data, "parsePCClientSpecIdEvent")
  ELSE IF sg.bytes = SigSpecId02 THEN decodeSpecIdEvent(data, "parseEFI_1_2_SpecIdEvent")
  ELSE IF sg.bytes = SigSpecId03 THEN decodeSpecIdEvent(data, "parseEFI_2_SpecIdEvent")
  ELSE IF sg.bytes = SigSP800155 THEN decodeBIMReferenceManifestEvent(data)
  ELSE IF sg.bytes = SigStartupLocality THEN decodeStartupLocalityEvent(data)
  ELSE [out |-> MkData("unknownNoActionEventData", data), err |-> NoErr, trailingBytes |-> 0]

decodeEventDataAction(data) == [out |-> MkData("asciiStringEventData", data), err |-> NoErr, trailingBytes |-> 0]

decodeEventDataSeparator(data, isError) ==
  [out |-> [MkData("separatorEventData", data) EXCEPT !.isError = isError], err |-> NoErr, trailingBytes |-> 0]

\* a little-endian uint64 that is used as a length only: a length from 2^16 on,
\* more than a payload here holds, is held at 2^16
length64(b) == IF \E i \in 3..8 : b[i] # 0 THEN 65536 ELSE U16Of(b)

\* the result of a decoder whose last read of the payload is r
decoded(variant, data, r) ==
  IF r.err # NoErr THEN [out |-> NilData, err |-> r.err, trailingBytes |-> 0]
  ELSE [out |-> MkData(variant, data), err |-> NoErr, trailingBytes |-> Len(data) - r.off]

\* UEFI_VARIABLE_DATA: 16-byte variable GUID, uint64 UnicodeNameLength, uint64
\* VariableDataLength, the name in UTF-16 code units, the variable data
decodeEventDataEFIVariable(data, eventType) ==
  LET guid == ReadFull(data, 0, 16) IN
  IF guid.err # NoErr THEN decoded("EFIVariableEventData", data, guid)
  ELSE
  LET nameLength == ReadFull(data, guid.off, 8) IN
  IF nameLength.err # NoErr THEN decoded("EFIVariableEventData", data, nameLength)
  ELSE
  LET dataLength == ReadFull(data, nameLength.off, 8) IN
  IF dataLength.err # NoErr THEN decoded("EFIVariableEventData", data, dataLength)
  ELSE
  LET name == ReadFull(data, dataLength.off, 2 * length64(nameLength.bytes)) IN
  IF name.err # NoErr THEN decoded("EFIVariableEventData", data, name)
  ELSE decoded("EFIVariableEventData", data,
               ReadFull(data, name.off, length64(dataLength.bytes)))

\* UEFI_IMAGE_LOAD_EVENT: physical address, image length, link-time address and
\* device-path length (uint64 each), the device path
decodeEventDataEFIImageLoad(data) ==
  LET header == ReadFull(data, 0, 32) IN
  IF header.err # NoErr THEN decoded("EFIImageLoadEventData", data, header)
  ELSE decoded("EFIImageLoadEventData", data,
               ReadFull(data, header.off, length64(SubSeq(header.bytes, 25, 32))))

\* UEFI_GPT_DATA: the GPT header (92 bytes), uint64 NumberOfPartitions, the
\* partition entries, each of the size the header gives (SizeOfPartitionEntry, the
\* uint32 at offset 84)
decodeEventDataEFIGPT(data) ==
  LET header == ReadFull(data, 0, 92) IN
  IF header.err # NoErr THEN decoded("EFIGPTEventData", data, header)
  ELSE
  LET count == ReadFull(data, header.off, 8) IN
  IF count.err # NoErr THEN decoded("EFIGPTEventData", data, count)
  ELSE
  LET entrySize == U32Of(SubSeq(header.bytes, 85, 88))
      entries == length64(count.bytes) IN
  decoded("EFIGPTEventData", data,
          ReadFull(data, count.off,
                   IF entrySize = 0 \/ entries = 0 THEN 0
                   ELSE IF entrySize < 0 \/ entrySize > 32767 THEN -1
                   ELSE entrySize * entries))

\* event types without a case here decode to nothing (nil, no error)
decodeEventDataTCG(eventType, data, hasDigestOfSeparatorError) ==
  IF eventType = EventTypeNoAction THEN decodeEventDataNoAction(data)
  ELSE IF eventType = EventTypeSeparator
  THEN decodeEventDataSeparator(data, hasDigestOfSeparatorError)
  ELSE IF eventType \in {EventTypeAction, EventTypeEFIAction} THEN decodeEventDataAction(data)
  ELSE IF eventType \in {EventTypeEFIVariableDriverConfig, EventTypeEFIVariableBoot,
                         EventTypeEFIVariableAuthority}
  THEN decodeEventDataEFIVariable(data, eventType)
  ELSE IF eventType \in {EventTypeEFIBootServicesApplication, EventTypeEFIBootServicesDriver,
                         EventTypeEFIRuntimeServicesDriver}
  THEN decodeEventDataEFIImageLoad(data)
  ELSE IF eventType = EventTypeEFIGPTEvent THEN decodeEventDataEFIGPT(data)
  ELSE [out |-> NilData, err |-> NoErr, trailingBytes |-> 0]

\* log.go: a decoder error becomes a broken-data variant that carries the error
\* and the payload, a nil result an opaque variant
brokenOrOpaque(d, data) ==
  IF d.err # NoErr THEN [MkData("BrokenEventData", data) EXCEPT !.Error = d.err]
  ELSE IF d.out = NilData THEN MkData("opaqueEventData", data)
  ELSE d.out

decodeEventData(pcrIndex, eventType, data, hasDigestOfSeparatorError) ==
  brokenOrOpaque(decodeEventDataTCG(eventType, data, hasDigestOfSeparatorError), data)

\* part_000: the decoded data and the decoder's error side by side
dataAndError(d, data) ==
  IF d.err # NoErr \/ d.out = NilData
  THEN [data |-> MkData("opaqueEventData", data), dataErr |-> d.err]
  ELSE [data |-> d.out, dataErr |-> NoErr]

\* part_000: a separator is opaque data whose informational flag (isError here)
\* the log driver sets later
makeEventData(pcrIndex, eventType, data) ==
  IF eventType = EventTypeSeparator
  THEN [data |-> MkData("opaqueEventData", data), dataErr |-> NoErr]
  ELSE dataAndError(decodeEventDataTCG(eventType, data, FALSE), data)

\* ---------------------------------------------------------- stream readers
\* A reader result: the event (NilEvent on error), the error, the offset the source
\* is left at, and whether the call panicked instead of returning.

NilEvent ==
  [PCRIndex |-> -1, EventType |-> -1, Index |-> -1, Digests |-> <<>>,
   Data |-> NilData, dataErr |-> NoErr]

Failure(err, o) == [event |-> NilEvent, err |-> err, off |-> o, panic |-> FALSE]

Panic(o) == [event |-> NilEvent, err |-> NoErr, off |-> o, panic |-> TRUE]

isPCRIndexInRange_off(index) == 0 <= index /\ index <= maxPCRIndex + 1

\* index <= maxPCRIndex over uint32
isPCRIndexInRange(index) == 0 <= index /\ index <= maxPCRIndex

\* The framing of a TCG_PCClientPCREventStruct record at offset o: PCR index, event
\* type, 20-byte SHA-1 digest (a single Read call), eventSize, event data.
frame_1_2(s, o) ==
  LET none == [pcrIndex |-> -1, eventType |-> -1, digest |-> <<>>, event |-> <<>>]
      r1 == ReadFull(s, o, 4) IN
  IF r1.err # NoErr THEN [err |-> wrapLogReadError(r1.err, FALSE), off |-> r1.off] @@ none
  ELSE IF ~isPCRIndexInRange(U32Of(r1.bytes))
  THEN [err |-> ErrPCRIndexOutOfRange, off |-> r1.off] @@ none
  ELSE
  LET r2 == ReadFull(s, r1.off, 4) IN
  IF r2.err # NoErr THEN [err |-> wrapLogReadError(r2.err, TRUE), off |-> r2.off] @@ none
  ELSE
  LET r3 == ReadOnce(s, r2.off, knownAlgorithms[AlgorithmSha1]) IN
  IF r3.err # NoErr THEN [err |-> wrapLogReadError(r3.err, TRUE), off |-> r3.off] @@ none
  ELSE
  LET r4 == ReadFull(s, r3.off, 4) IN
  IF r4.err # NoErr THEN [err |-> wrapLogReadError(r4.err, TRUE), off |-> r4.off] @@ none
  ELSE
  LET r5 == ReadFull(s, r4.off, U32Of(r4.bytes)) IN
  IF r5.err # NoErr THEN [err |-> wrapLogReadError(r5.err, TRUE), off |-> r5.off] @@ none
  ELSE [err |-> NoErr, off |-> r5.off, pcrIndex |-> U32Of(r1.bytes),
        eventType |-> U32Of(r2.bytes), digest |-> r3.bytes, event |-> r5.bytes]

Success(event, o) == [event |-> event, err |-> NoErr, off |-> o, panic |-> FALSE]

\* log.go: the event of a framed 1.2 record
event_1_2(f) ==
  IF f.err # NoErr THEN Failure(f.err, f.off)
  ELSE Success([PCRIndex |-> f.pcrIndex, EventType |-> f.eventType, Index |-> 0,
                Digests |-> (AlgorithmSha1 :> f.digest),
                Data |-> decodeEventData(f.pcrIndex, f.eventType, f.event,
                           isDigestOfSeparatorErrorValue(f.digest, AlgorithmSha1)),
                dataErr |-> NoErr], f.off)

\* log.go
stream_1_2_readNextEvent(s, o) == event_1_2(frame_1_2(s, o))

withData(f, digests, d) ==
  Success([PCRIndex |-> f.pcrIndex, EventType |-> f.eventType, Index |-> 0,
           Digests |-> digests, Data |-> d.data, dataErr |-> d.dataErr], f.off)

\* part_000: the event of a framed 1.2 record
event_1_2_0(f) ==
  IF f.err # NoErr THEN Failure(f.err, f.off)
  ELSE withData(f, (AlgorithmSha1 :> f.digest), makeEventData(f.pcrIndex, f.eventType, f.event))

\* part_000
stream_1_2_readNextEvent_0(s, o) == event_1_2_0(frame_1_2(s, o))

algSizeIndex_orFirst(algSizes, algorithmId) ==
  IF \E j \in 1..Len(algSizes) : algSizes[j].AlgorithmId = algorithmId
  THEN CHOOSE j \in 1..Len(algSizes) : algSizes[j].AlgorithmId = algorithmId
  ELSE IF Len(algSizes) > 0 THEN 1 ELSE 0

\* the first entry of algSizes for the algorithm, 0 when there is none
algSizeIndex(algSizes, algorithmId) ==
  IF \E j \in 1..Len(algSizes) : algSizes[j].AlgorithmId = algorithmId
  THEN CHOOSE j \in 1..Len(algSizes) :
         /\ algSizes[j].AlgorithmId = algorithmId
         /\ \A k \in 1..(j - 1) : algSizes[k].AlgorithmId # algorithmId
  ELSE 0

digestSizeOf_registry(algSizes, j) ==
  IF isKnownAlgorithm(algSizes[j].AlgorithmId) THEN knownAlgorithms[algSizes[j].AlgorithmId]
  ELSE algSizes[j].DigestSize

\* the length of the digest to read: the size the Spec ID event advertised
digestSizeOf(algSizes, j) == algSizes[j].DigestSize

duplicateDigest_never(digests, algorithmId) == FALSE

\* the record already had a digest of the algorithm
duplicateDigest(digests, algorithmId) == algorithmId \in DOMAIN digests

\* the digest vector: count entries of (uint16 AlgorithmId, digest)
RECURSIVE readDigests(_, _, _, _, _)
readDigests(s, o, algSizes, count, digests) ==
  IF count = 0 THEN [err |-> NoErr, off |-> o, digests |-> digests]
  ELSE
  LET ra == ReadFull(s, o, 2) IN
  IF ra.err # NoErr
  THEN [err |-> wrapLogReadError(ra.err, TRUE), off |-> ra.off, digests |-> digests]
  ELSE
  LET algorithmId == U16Of(ra.bytes)
      j == algSizeIndex(algSizes, algorithmId) IN
  IF j = 0 THEN [err |-> ErrUnrecognizedAlgorithm, off |-> ra.off, digests |-> digests]
  ELSE
  LET rd == ReadFull(s, ra.off, digestSizeOf(algSizes, j)) IN
  IF rd.err # NoErr
  THEN [err |-> wrapLogReadError(rd.err, TRUE), off |-> rd.off, digests |-> digests]
  ELSE IF duplicateDigest(digests, algorithmId)
  THEN [err |-> ErrDuplicateDigest, off |-> rd.off, digests |-> digests]
  ELSE readDigests(s, rd.off, algSizes, decrement32(count), (algorithmId :> rd.bytes) @@ digests)

missingDigest_knownOnly(algSizes, digests) ==
  \E j \in 1..Len(algSizes) :
    isKnownAlgorithm(algSizes[j].AlgorithmId) /\ algSizes[j].AlgorithmId \notin DOMAIN digests

\* some advertised algorithm has no digest in the record
missingDigest(algSizes, digests) ==
  \E j \in 1..Len(algSizes) : algSizes[j].AlgorithmId \notin DOMAIN digests

dropUnknownAlgorithms_none(digests) == digests

\* the digests of algorithms outside the registry are deleted from the map
dropUnknownAlgorithms(digests) ==
  [alg \in {a \in DOMAIN digests : isKnownAlgorithm(a)} |-> digests[alg]]

\* The framing of a TCG_PCR_EVENT2 record at offset o.
frame_2(s, o, algSizes) ==
  LET none == [pcrIndex |-> -1, eventType |-> -1, digests |-> <<>>, event |-> <<>>]
      r1 == ReadFull(s, o, 4) IN
  IF r1.err # NoErr THEN [err |-> wrapLogReadError(r1.err, FALSE), off |-> r1.off] @@ none
  ELSE IF ~isPCRIndexInRange(U32Of(r1.bytes))
  THEN [err |-> ErrPCRIndexOutOfRange, off |-> r1.off] @@ none
  ELSE
  LET r2 == ReadFull(s, r1.off, 4) IN
  IF r2.err # NoErr THEN [err |-> wrapLogReadError(r2.err, TRUE), off |-> r2.off] @@ none
  ELSE
  LET r3 == ReadFull(s, r2.off, 4) IN
  IF r3.err # NoErr THEN [err |-> wrapLogReadError(r3.err, TRUE), off |-> r3.off] @@ none
  ELSE
  LET ds == readDigests(s, r3.off, algSizes, U32Of(r3.bytes), <<>>) IN
  IF ds.err # NoErr THEN [err |-> ds.err, off |-> ds.off] @@ none
  ELSE IF missingDigest(algSizes, ds.digests)
  THEN [err |-> ErrMissingDigest, off |-> ds.off] @@ none
  ELSE
  LET r4 == ReadFull(s, ds.off, 4) IN
  IF r4.err # NoErr THEN [err |-> wrapLogReadError(r4.err, TRUE), off |-> r4.off] @@ none
  ELSE
  LET r5 == ReadFull(s, r4.off, U32Of(r4.bytes)) IN
  IF r5.err # NoErr THEN [err |-> wrapLogReadError(r5.err, TRUE), off |-> r5.off] @@ none
  ELSE [err |-> NoErr, off |-> r5.off, pcrIndex |-> U32Of(r1.bytes),
        eventType |-> U32Of(r2.bytes), digests |-> dropUnknownAlgorithms(ds.digests),
        event |-> r5.bytes]

\* log.go: the event of a framed 2.0 record.  The separator flag is computed for
\* every record from the digest of algSizes[0]: indexing an empty algSizes panics,
\* and so does hashing under an algorithm outside the registry.
event_2(f, algSizes) ==
  IF f.err # NoErr THEN Failure(f.err, f.off)
  ELSE IF Len(algSizes) = 0 THEN Panic(f.off)
  ELSE IF hashPanics(algSizes[1].AlgorithmId) THEN Panic(f.off)
  ELSE Success([PCRIndex |-> f.pcrIndex, EventType |-> f.eventType, Index |-> 0,
                Digests |-> f.digests,
                Data |-> decodeEventData(f.pcrIndex, f.eventType, f.event,
                           isDigestOfSeparatorErrorValue(
                             f.digests[algSizes[1].AlgorithmId], algSizes[1].AlgorithmId)),
                dataErr |-> NoErr], f.off)

\* log.go: the first call reads with the 1.2 layout
stream_2_readNextEvent(s, o, algSizes, readFirstEvent) ==
  IF ~readFirstEvent THEN stream_1_2_readNextEvent(s, o)
  ELSE event_2(frame_2(s, o, algSizes), algSizes)

\* part_000: the event of a framed 2.0 record
event_2_0(f) ==
  IF f.err # NoErr THEN Failure(f.err, f.off)
  ELSE withData(f, f.digests, makeEventData(f.pcrIndex, f.eventType, f.event))

\* part_000
stream_2_readNextEvent_0(s, o, algSizes, readFirstEvent) ==
  IF ~readFirstEvent THEN stream_1_2_readNextEvent_0(s, o)
  ELSE event_2_0(frame_2(s, o, algSizes))

\* ------------------------------------------------------------- log driver

VARIABLES
  src,      \* the bytes of the source
  off,      \* the offset of the source
  copy,     \* which copy of the log reader runs: "log.go" or "part_000"
  phase,    \* "new", "open", "openFailed" (open returned an error), "panic"
  log,      \* the Log object open returned
  last,     \* what the last call returned
  callOff,  \* the offset of the source when the last call began
  emitted,  \* PCRIndex, Index and Digests of the events NextEvent has returned, in order
  banks,    \* the validator's expected-PCR map, keyed by <<PCRIndex, AlgorithmId>>
  gen,      \* the records the source was built from: where each starts and ends
  args,     \* how many positional arguments main found, -1 before it has looked
  exitCode  \* the exit code of the process, -1 while it runs

vars == <<src, off, copy, phase, log, last, callOff, emitted, banks, gen, args, exitCode>>

\* the process has not exited: no call is made once it has
running == exitCode = -1

NilLog ==
  [Spec |-> SpecUnknown, Algorithms |-> <<>>, stream |-> "none", algSizes |-> <<>>,
   readFirstEvent |-> FALSE, failed |-> FALSE, indexTracker |-> <<>>]

Outcome(op, kind, err, event, refused) ==
  [op |-> op, kind |-> kind, err |-> err, event |-> event, refused |-> refused]

knownOnly_all(digestSizes) == [j \in 1..Len(digestSizes) |-> digestSizes[j].AlgorithmId]

RECURSIVE knownOnly(_)
knownOnly(digestSizes) ==
  IF digestSizes = <<>> THEN <<>>
  ELSE IF isKnownAlgorithm(Head(digestSizes).AlgorithmId)
  THEN <<Head(digestSizes).AlgorithmId>> \o knownOnly(Tail(digestSizes))
  ELSE knownOnly(Tail(digestSizes))

SeqSet(q) == {q[i] : i \in 1..Len(q)}

\* the Log open returns: the 2.0 reader and the advertised algorithms of the
\* registry for an EFI 2 Spec ID event, the 1.2 reader and SHA-1 otherwise
newLog(spec, digestSizes) ==
  [Spec |-> spec,
   Algorithms |-> IF spec = SpecEFI_2 THEN knownOnly(digestSizes) ELSE <<AlgorithmSha1>>,
   stream |-> IF spec = SpecEFI_2 THEN "stream_2" ELSE "stream_1_2",
   algSizes |-> IF spec = SpecEFI_2 THEN digestSizes ELSE <<>>,
   readFirstEvent |-> FALSE, failed |-> FALSE, indexTracker |-> <<>>]

openFails(err, o) ==
  /\ phase' = "openFailed" /\ off' = o /\ log' = NilLog
  /\ last' = Outcome("open", "error", err, NilEvent, FALSE)

openReturns_origin(l, o) ==
  /\ phase' = "open" /\ off' = 0 /\ log' = l
  /\ last' = Outcome("open", "ok", NoErr, NilEvent, FALSE)

openReturns(l, o) ==
  /\ phase' = "open" /\ off' = o /\ log' = l
  /\ last' = Outcome("open", "ok", NoErr, NilEvent, FALSE)

openError_notPartial(err) == wrapLogReadError(err, FALSE)

\* log.go: the error of the first read is wrapped as one of a partial record, so
\* that the end-of-stream sentinel becomes an unexpected end
openError(err) == wrapLogReadError(err, TRUE)

\* log.go: what open does with the first record r, read from offset start; a read
\* error and an invalid Spec ID event return before the source is rewound
newLogFromReader_first(r, d, start) ==
  IF r.err # NoErr THEN openFails(openError(r.err), r.off)
  ELSE IF d.variant = "BrokenEventData" /\ isInvalidSpecIdEventError(d.Error)
  THEN openFails(d.Error, r.off)
  ELSE IF d.variant = "SpecIdEventData" THEN openReturns(newLog(d.Spec, d.DigestSizes), start)
  ELSE openReturns(newLog(SpecUnknown, <<>>), start)

dataOf(r) == r.event.Data

\* log.go: the first record is read with the 1.2 layout
newLogFromReader ==
  /\ running /\ phase = "new" /\ copy = "log.go"
  /\ callOff' = off
  /\ newLogFromReader_first(stream_1_2_readNextEvent(src, off),
                            dataOf(stream_1_2_readNextEvent(src, off)), off)
  /\ UNCHANGED <<src, copy, emitted, banks, gen, args, exitCode>>

\* part_000: the source is rewound right after the first record was read
newLogFromReader_0_first(r, e, start) ==
  IF r.err # NoErr THEN openFails(IF r.err = EOF THEN ErrUnexpectedEOF ELSE r.err, r.off)
  ELSE IF e.Data.variant = "SpecIdEventData"
  THEN openReturns(newLog(e.Data.Spec, e.Data.DigestSizes), start)
  ELSE IF isInvalidSpecIdEventError(e.dataErr) THEN openFails(e.dataErr, start)
  ELSE openReturns(newLog(SpecUnknown, <<>>), start)

eventOf(r) == r.event

\* part_000
newLogFromReader_0 ==
  /\ running /\ phase = "new" /\ copy = "part_000"
  /\ callOff' = off
  /\ newLogFromReader_0_first(stream_1_2_readNextEvent_0(src, off),
                              eventOf(stream_1_2_readNextEvent_0(src, off)), off)
  /\ UNCHANGED <<src, copy, emitted, banks, gen, args, exitCode>>

isSpecIdEvent(event) == event.Data.variant = "SpecIdEventData"

fixupSpecIdEvent_none(event, algorithms) == event

fixupSpecIdEvent_ownList(event, algorithms) ==
  IF event.Data.Spec # SpecEFI_2 THEN event
  ELSE [event EXCEPT !.Digests =
          [alg \in (DOMAIN event.Digests)
                     \cup (SeqSet(knownOnly(event.Data.DigestSizes)) \ {AlgorithmSha1}) |->
             IF alg \in DOMAIN event.Digests THEN event.Digests[alg]
             ELSE zeroDigests[alg]]]

fixupSpecIdEvent_overwrite(event, algorithms) ==
  IF event.Data.Spec # SpecEFI_2 THEN event
  ELSE [event EXCEPT !.Digests =
          [alg \in (DOMAIN event.Digests) \cup (SeqSet(algorithms) \ {AlgorithmSha1}) |->
             IF alg \in SeqSet(algorithms) \ {AlgorithmSha1} THEN zeroDigests[alg]
             ELSE event.Digests[alg]]]

\* the digests an EFI 2 Spec ID event lacks are set to the zero digest
fixupSpecIdEvent(event, algorithms) ==
  IF event.Data.Spec # SpecEFI_2 THEN event
  ELSE [event EXCEPT !.Digests =
          [alg \in (DOMAIN event.Digests) \cup (SeqSet(algorithms) \ {AlgorithmSha1}) |->
             IF alg \in DOMAIN event.Digests THEN event.Digests[alg]
             ELSE zeroDigests[alg]]]

eventIndex_afterBump(indexTracker, pcrIndex) ==
  IF pcrIndex \in DOMAIN indexTracker THEN indexTracker[pcrIndex] + 1 ELSE 1

\* the index of the next event of the PCR
eventIndex(indexTracker, pcrIndex) ==
  IF pcrIndex \in DOMAIN indexTracker THEN indexTracker[pcrIndex] ELSE 0

bumpIndex(indexTracker, pcrIndex) ==
  IF pcrIndex \in DOMAIN indexTracker
  THEN [indexTracker EXCEPT ![pcrIndex] = indexTracker[pcrIndex] + 1]
  ELSE (pcrIndex :> 1) @@ indexTracker

marksFailed_never(err) == FALSE

\* log.go: every error but the end-of-stream sentinel marks the log failed
marksFailed(err) == err # EOF

\* part_000: every error marks the log failed
marksFailed_0(err) == TRUE

\* the reader of the log's stream, which sets readFirstEvent before it reads
readNextEvent(l, s, o) ==
  IF l.stream = "stream_2" THEN stream_2_readNextEvent(s, o, l.algSizes, l.readFirstEvent)
  ELSE stream_1_2_readNextEvent(s, o)

readNextEvent_0(l, s, o) ==
  IF l.stream = "stream_2" THEN stream_2_readNextEvent_0(s, o, l.algSizes, l.readFirstEvent)
  ELSE stream_1_2_readNextEvent_0(s, o)

afterRead_never(l) == l

\* the 2.0 reader sets its switch at the start of its first call
afterRead(l) == IF l.stream = "stream_2" THEN [l EXCEPT !.readFirstEvent = TRUE] ELSE l

refusesWhenFailed_never(l) == FALSE

refusesWhenFailed(l) == l.failed

indexed(event, indexTracker) ==
  [event EXCEPT !.Index = eventIndex(indexTracker, event.PCRIndex)]

\* ------------------------------------------------------------- validator
\* The validator reads the log event by event and extends, for every algorithm of
\* the log, the bank of the event's PCR; a bank not yet extended is all zeroes.

bankOf(b, pcrIndex, alg) ==
  IF <<pcrIndex, alg>> \in DOMAIN b THEN b[<<pcrIndex, alg>>] ELSE zeroDigests[alg]

\* for an error separator the digest expected from the bytes it measured, the
\* error value
extendDigest_expected(event, alg) ==
  IF event.EventType = EventTypeSeparator /\ event.Data.isError THEN hash(errorValue, alg)
  ELSE IF alg \in DOMAIN event.Digests THEN event.Digests[alg] ELSE <<>>

\* the digest a bank is extended with: the one recorded in the event (nothing
\* when the digest map has no entry for the algorithm)
extendDigest(event, alg) ==
  IF alg \in DOMAIN event.Digests THEN event.Digests[alg] ELSE <<>>

extendBanks(b, event, algorithms) ==
  [k \in DOMAIN b \cup {<<event.PCRIndex, alg>> : alg \in SeqSet(algorithms)} |->
     IF k[1] = event.PCRIndex /\ k[2] \in SeqSet(algorithms)
     THEN hash(bankOf(b, k[1], k[2]) \o extendDigest(event, k[2]), k[2])
     ELSE b[k]]

\* ------------------------------------------------------- the calls of a Log

\* log.go refuses with the bare message; part_000 refuses with a LogReadError
\* holding it.
refuse(err) ==
  /\ last' = Outcome("next", "error", err, NilEvent, TRUE)
  /\ UNCHANGED <<off, log, phase, emitted, banks>>

panics ==
  /\ phase' = "panic" /\ log' = afterRead(log)
  /\ last' = Outcome("next", "panic", NoErr, NilEvent, FALSE)
  /\ UNCHANGED <<emitted, banks>>

returnError_bumps(err, failed) ==
  /\ log' = [afterRead(log) EXCEPT !.failed = failed,
                                   !.indexTracker = bumpIndex(log.indexTracker, 0)]
  /\ last' = Outcome("next", IF err = EOF THEN "eof" ELSE "error", err, NilEvent, FALSE)
  /\ UNCHANGED <<phase, emitted, banks>>

returnError(err, failed) ==
  /\ log' = [afterRead(log) EXCEPT !.failed = failed]
  /\ last' = Outcome("next", IF err = EOF THEN "eof" ELSE "error", err, NilEvent, FALSE)
  /\ UNCHANGED <<phase, emitted, banks>>

returnEvent(event) ==
  /\ log' = [afterRead(log) EXCEPT
               !.indexTracker = bumpIndex(log.indexTracker, event.PCRIndex)]
  /\ last' = Outcome("next", "event", NoErr, event, FALSE)
  /\ emitted' = Append(emitted, [PCRIndex |-> event.PCRIndex, Index |-> event.Index,
                                  Digests |-> event.Digests])
  /\ banks' = extendBanks(banks, event, log.Algorithms)
  /\ UNCHANGED phase

\* log.go: the post-decode fix-up of nextEventInternal
fixedUp(event, algorithms) ==
  IF isSpecIdEvent(event) THEN fixupSpecIdEvent(event, algorithms) ELSE event

\* log.go: what nextEventInternal does with the result r of the stream reader
nextEventInternal_read(r) ==
  /\ off' = r.off
  /\ IF r.panic THEN panics
     ELSE IF r.err # NoErr THEN returnError(r.err, marksFailed(r.err))
     ELSE returnEvent(fixedUp(indexed(r.event, log.indexTracker), log.Algorithms))

\* log.go: Log.NextEvent, which is nextEventInternal without the trailing count
nextEventInternal ==
  /\ running /\ phase = "open" /\ copy = "log.go"
  /\ callOff' = off
  /\ IF refusesWhenFailed(log) THEN refuse(ErrFailed)
     ELSE nextEventInternal_read(readNextEvent(log, src, off))
  /\ UNCHANGED <<src, copy, gen, args, exitCode>>

\* part_000: the loop over the digest map stops after its first entry, and a map
\* is ranged over in no fixed order: alg is the entry the loop happens to visit
classifySeparatorEvent(event, alg) ==
  [event EXCEPT !.Data.isError = (event.Digests[alg] = hash(errorValue, alg))]

\* part_000: the post-decode switch of NextEvent; alg is 0 when the loop of
\* classifySeparatorEvent has no entry to visit
fixedUp_0(event, algorithms, alg) ==
  IF event.EventType = EventTypeSeparator
  THEN (IF alg = 0 THEN event ELSE classifySeparatorEvent(event, alg))
  ELSE IF isSpecIdEvent(event) THEN fixupSpecIdEvent(event, algorithms)
  ELSE event

\* the entries the loop of classifySeparatorEvent may visit first
firstVisited(event) ==
  IF event.EventType # EventTypeSeparator \/ DOMAIN event.Digests = {} THEN {0}
  ELSE DOMAIN event.Digests

\* part_000: what NextEvent does with the result r of the stream reader
NextEvent_0_read(r) ==
  /\ off' = r.off
  /\ IF r.err # NoErr THEN returnError(r.err, marksFailed_0(r.err))
     ELSE \E alg \in firstVisited(r.event) :
            returnEvent(fixedUp_0(indexed(r.event, log.indexTracker), log.Algorithms, alg))

\* part_000: Log.NextEvent
NextEvent_0 ==
  /\ running /\ phase = "open" /\ copy = "part_000"
  /\ callOff' = off
  /\ IF refusesWhenFailed(log)
     THEN refuse(<<"error when reading from log stream">> \o ErrFailed)
     ELSE NextEvent_0_read(readNextEvent_0(log, src, off))
  /\ UNCHANGED <<src, copy, gen, args, exitCode>>

\* ------------------------------------------------------------ command line
\* tcglog-validate: main parses the flags, refuses positional arguments, has the
\* log validated and exits.

exit(code) == exitCode' = code

\* main.go: any positional argument left after the flags ends the process with
\* code 1 before the log is opened
main_args ==
  /\ running /\ phase = "new"
  /\ \E n \in 1..MaxArgs : args' = n
  /\ exit(1)
  /\ UNCHANGED <<src, off, copy, phase, log, last, callOff, emitted, banks, gen>>

\* the validation has ended: open failed, or a NextEvent returned an error or the
\* end-of-stream sentinel
validationEnded ==
  \/ phase = "openFailed"
  \/ phase = "open" /\ last.op = "next" /\ ~last.refused /\ last.kind \in {"eof", "error"}

\* main.go: without positional arguments main has the log validated; an error of
\* the validation ends the process with code 1, a result is reported and the
\* process ends with code 0
main_validate ==
  /\ running /\ validationEnded
  /\ args' = 0
  /\ exit(IF last.kind = "error" THEN 1 ELSE 0)
  /\ UNCHANGED <<src, off, copy, phase, log, last, callOff, emitted, banks, gen>>

main == main_args \/ main_validate

\* ------------------------------------------------------- generated sources
\* A source is a first record in the 1.2 layout, up to MaxRecords well-formed
\* records in the layout the first record selects, and possibly one last record
\* that is malformed or cut short.  Logs of two records have the EFI event types
\* and the PCR indexes from 2^31 on.

Entry(alg, size) == [AlgorithmId |-> alg, DigestSize |-> size]

\* the algorithm lists a Spec ID event advertises
AdvertisedChoices ==
  { <<Entry(AlgorithmSha1, 20), Entry(AlgorithmSha256, 32)>>,
    <<Entry(AlgorithmSha256, 32), Entry(AlgorithmSha1, 20)>>,
    <<Entry(AlgorithmSha256, 32)>>,
    <<Entry(AlgorithmSha1, 20), Entry(AlgorithmSha256, 20)>>,
    <<Entry(AlgorithmSha1, 20), Entry(AlgorithmSm3, 32)>>,
    <<Entry(AlgorithmSm3, 32), Entry(AlgorithmSha1, 20)>>,
    <<>> }

\* a digest of the advertised size: the digest of the separator error value
\* ("err"), of the value 0 ("norm"), cut or zero-padded to that size
DigBytes(e, which) ==
  IF ~isKnownAlgorithm(e.AlgorithmId) THEN Fill(e.DigestSize, 170)
  ELSE LET h == IF which = "err" THEN hashOfErrorValue[e.AlgorithmId]
                ELSE hashOfZeroValue[e.AlgorithmId] IN
       [i \in 1..e.DigestSize |-> IF i <= Len(h) THEN h[i] ELSE 0]

Which(pat, j) ==
  IF pat = "norm" THEN "norm"
  ELSE IF pat = "err" THEN "err"
  ELSE IF pat = "firstErr" THEN (IF j = 1 THEN "err" ELSE "norm")
  ELSE (IF j = 1 THEN "norm" ELSE "err")

DigList(adv, pat) ==
  [j \in 1..Len(adv) |-> [alg |-> adv[j].AlgorithmId, bytes |-> DigBytes(adv[j], Which(pat, j))]]

Rec(layout, pcr, type, digs, data, kind) ==
  [layout |-> layout, pcr |-> pcr, type |-> type, digs |-> digs, data |-> data, kind |-> kind]

RECURSIVE EncPairs(_)
EncPairs(adv) ==
  IF adv = <<>> THEN <<>>
  ELSE LE16(Head(adv).AlgorithmId) \o LE16(Head(adv).DigestSize) \o EncPairs(Tail(adv))

\* a Spec ID payload: signature, common header, the algorithm list of the EFI 2
\* variant, an empty vendorInfo
SpecIdPayload(sig, adv) ==
  sig \o LE32(0) \o <<0, 2, 0, 2>>
      \o (IF sig = SigSpecId03 THEN LE32(Len(adv)) \o EncPairs(adv) ELSE <<>>) \o <<0>>

RECURSIVE EncDigs(_)
EncDigs(digs) ==
  IF digs = <<>> THEN <<>>
  ELSE LE16(Head(digs).alg) \o Head(digs).bytes \o EncDigs(Tail(digs))

Enc(d) ==
  IF d.layout = 1
  THEN LE32(d.pcr) \o LE32(d.type) \o d.digs[1].bytes \o LE32(Len(d.data)) \o d.data
  ELSE LE32(d.pcr) \o LE32(d.type) \o LE32(Len(d.digs)) \o EncDigs(d.digs)
         \o LE32(Len(d.data)) \o d.data

\* the length of a record up to the end of its digests
DigestsEnd(d) == Len(Enc(d)) - 4 - Len(d.data)

RECURSIVE DigBoundaries(_, _)
DigBoundaries(digs, o) ==
  IF digs = <<>> THEN {}
  ELSE {o + 2, o + 2 + Len(Head(digs).bytes)}
         \cup DigBoundaries(Tail(digs), o + 2 + Len(Head(digs).bytes))

\* where the fields of a record end
Boundaries(d) ==
  IF d.layout = 1 THEN {4, 8, 28, 32}
  ELSE {4, 8, 12} \cup DigBoundaries(d.digs, 12) \cup {DigestsEnd(d) + 4}

\* the lengths a record is cut to: at the end of a field and one byte into a field
Cuts(d) == {c \in 1..(Len(Enc(d)) - 1) : c \in Boundaries(d) \/ c - 1 \in Boundaries(d) \cup {0}}

Sha1Dig(which) == <<[alg |-> AlgorithmSha1, bytes |-> DigBytes(Entry(AlgorithmSha1, 20), which)]>>

DefaultAdv == <<Entry(AlgorithmSha1, 20), Entry(AlgorithmSha256, 32)>>

\* first records that make a legacy log
LegacyFirst ==
  { Rec(1, 0, EventTypeSeparator, Sha1Dig("norm"), LE32(0), "valid"),
    Rec(1, 0, EventTypeNoAction, Sha1Dig("norm"), SpecIdPayload(SigSpecId00, <<>>), "valid"),
    Rec(1, 1, EventTypeNoAction, Sha1Dig("norm"), <<1, 2, 3>>, "valid") }

\* well-formed 1.2 records; the payload of a "broken" one is malformed for its
\* event type (a NO_ACTION payload shorter than a signature)
LegacyValid ==
  { Rec(1, 0, EventTypeSeparator, Sha1Dig("norm"), LE32(0), "valid"),
    Rec(1, 0, EventTypeSeparator, Sha1Dig("err"), <<222, 173, 190, 239>>, "valid"),
    Rec(1, 1, EventTypeAction, Sha1Dig("norm"), <<97, 98>>, "valid"),
    Rec(1, 1, EventTypeNoAction, Sha1Dig("norm"), SpecIdPayload(SigSpecId03, DefaultAdv), "valid"),
    Rec(1, 1, EventTypeNoAction, Sha1Dig("norm"), <<1, 2, 3>>, "broken") }

LegacyBad == { Rec(1, 32, EventTypeAction, Sha1Dig("norm"), <<>>, "pcr") }

LegacyCut == { Rec(1, 0, EventTypeSeparator, Sha1Dig("err"), <<222, 173, 190, 239>>, "truncated") }

\* first records with which open fails
FailingFirst ==
  { Rec(1, 32, EventTypeAction, Sha1Dig("norm"), <<>>, "pcr"),
    Rec(1, U32Of(<<255, 255, 255, 255>>), EventTypeAction, Sha1Dig("norm"), <<>>, "pcr"),
    Rec(1, 0, EventTypeNoAction, Sha1Dig("norm"), SigSpecId03 \o <<0, 0, 0>>, "invalidSpecId"),
    Rec(1, 0, EventTypeNoAction, Sha1Dig("norm"), SigSpecId00 \o LE32(0) \o <<0, 2, 0, 2>>,
        "invalidSpecId"),
    Rec(1, 0, EventTypeNoAction, Sha1Dig("norm"),
        SigSpecId02 \o LE32(0) \o <<0, 2, 0, 2>> \o <<2, 9>>, "invalidSpecId"),
    Rec(1, 0, EventTypeNoAction, Sha1Dig("norm"),
        SigSpecId03 \o LE32(0) \o <<0, 2, 0, 2>> \o LE32(2) \o EncPairs(<<Entry(AlgorithmSha1, 20)>>),
        "invalidSpecId") }

\* single-record logs: a NO_ACTION payload for each signature other than the two
\* above, and payloads with a signature the decoder does not know
NoActionFirst ==
  { Rec(1, 0, EventTypeNoAction, Sha1Dig("norm"), SpecIdPayload(SigSpecId02, <<>>), "valid"),
    Rec(1, 0, EventTypeNoAction, Sha1Dig("norm"), SigSP800155 \o Fill(16, 7), "valid"),
    Rec(1, 0, EventTypeNoAction, Sha1Dig("norm"), SigStartupLocality \o <<3>>, "valid"),
    Rec(1, 0, EventTypeNoAction, Sha1Dig("norm"), Sig(<<48, 49>>) \o <<1, 2>>, "valid"),
    Rec(1, 0, EventTypeNoAction, Sha1Dig("norm"), Fill(16, 0), "valid") }

\* payloads for the EFI event types: a variable (GUID, a name of one code unit,
\* two bytes of data), an image-load event with a device path of three bytes, a
\* GPT header with one partition entry of four bytes; and each of them cut short
EfiVariablePayload == Fill(16, 9) \o LE32(1) \o LE32(0) \o LE32(2) \o LE32(0) \o <<66, 0>> \o <<1, 0>>
EfiImageLoadPayload == Fill(24, 5) \o LE32(3) \o LE32(0) \o <<4, 1, 2>>
EfiGPTPayload == Fill(84, 6) \o LE32(4) \o LE32(0) \o LE32(1) \o LE32(0) \o Fill(4, 8)

EfiPayloads ==
  { <<EventTypeEFIAction, <<97, 98>>, "valid">>,
    <<EventTypeEFIVariableDriverConfig, EfiVariablePayload, "valid">>,
    <<EventTypeEFIVariableBoot, EfiVariablePayload \o <<7>>, "valid">>,
    <<EventTypeEFIVariableAuthority, SubSeq(EfiVariablePayload, 1, 35), "broken">>,
    <<EventTypeEFIBootServicesApplication, EfiImageLoadPayload, "valid">>,
    <<EventTypeEFIBootServicesDriver, SubSeq(EfiImageLoadPayload, 1, 30), "broken">>,
    <<EventTypeEFIRuntimeServicesDriver, Fill(24, 5) \o Fill(8, 255), "broken">>,
    <<EventTypeEFIGPTEvent, EfiGPTPayload, "valid">>,
    <<EventTypeEFIGPTEvent, SubSeq(EfiGPTPayload, 1, 102), "broken">>,
    <<U32Of(<<0, 0, 0, 128>>), <<97, 98>>, "valid">>,
    <<U32Of(<<255, 255, 255, 255>>), <<97, 98>>, "valid">>,
    <<U32Of(<<255, 255, 255, 127>>), <<97, 98>>, "valid">> }

\* two-record logs whose second record has an EFI event type, in either layout
EfiLogs ==
  { <<Rec(1, 0, EventTypeSeparator, Sha1Dig("norm"), LE32(0), "valid"),
      Rec(1, 2, p[1], Sha1Dig("norm"), p[2], p[3])>> : p \in EfiPayloads }
    \cup { <<Rec(1, 0, EventTypeNoAction, Sha1Dig("norm"),
                 SpecIdPayload(SigSpecId03, DefaultAdv), "valid"),
             Rec(2, 2, p[1], DigList(DefaultAdv, "norm"), p[2], p[3])>> : p \in EfiPayloads }

\* records with a PCR index from 2^31 on, in either layout
WidePCRLegacy ==
  { Rec(1, U32Of(<<0, 0, 0, 128>>), EventTypeAction, Sha1Dig("norm"), <<97>>, "pcr"),
    Rec(1, U32Of(<<31, 0, 0, 128>>), EventTypeAction, Sha1Dig("norm"), <<97>>, "pcr") }

WidePCRAgile ==
  { Rec(2, U32Of(<<0, 0, 0, 128>>), EventTypeAction, DigList(DefaultAdv, "norm"), <<97>>, "pcr"),
    Rec(2, U32Of(<<255, 255, 255, 255>>), EventTypeAction, DigList(DefaultAdv, "norm"), <<97>>,
        "pcr") }

AgileFirst(adv) ==
  Rec(1, 0, EventTypeNoAction, Sha1Dig("norm"), SpecIdPayload(SigSpecId03, adv), "valid")

\* well-formed 2.0 records of a log that advertises adv; the payload of the
\* "broken" one is a Spec ID structure that ends inside its common header
AgileValid(adv) ==
  { Rec(2, 1, EventTypeSeparator, DigList(adv, "firstErr"), <<222, 173, 190, 239>>, "valid"),
    Rec(2, 1, EventTypeSeparator, DigList(adv, "firstNorm"), LE32(0), "valid"),
    Rec(2, 1, EventTypeAction, DigList(adv, "norm"), <<97, 98>>, "valid"),
    Rec(2, 0, EventTypeNoAction, DigList(adv, "err"), SpecIdPayload(SigSpecId03, adv), "valid"),
    Rec(2, 1, EventTypeNoAction, DigList(adv, "norm"), SigSpecId00 \o <<0, 0, 0>>, "broken") }

\* malformed 2.0 records: PCR out of range, an advertised digest missing, a
\* digest twice, a digest of an algorithm that was not advertised
AgileBad(adv) ==
  { Rec(2, 32, EventTypeAction, DigList(adv, "norm"), <<>>, "pcr"),
    Rec(2, 0, EventTypeAction,
        <<[alg |-> AlgorithmSha384, bytes |-> Fill(48, 1)]>> \o DigList(adv, "norm"),
        <<97>>, "unrecognized") }
  \cup (IF adv = <<>> THEN {}
        ELSE { Rec(2, 0, EventTypeAction, SubSeq(DigList(adv, "norm"), 1, Len(adv) - 1),
                   <<97>>, "missing"),
               Rec(2, 0, EventTypeAction, Tail(DigList(adv, "norm")), <<97>>, "missing"),
               Rec(2, 0, EventTypeAction,
                   DigList(adv, "norm") \o <<DigList(adv, "err")[1]>>, <<97>>, "duplicate") })

AgileCut(adv) ==
  { Rec(2, 0, EventTypeSeparator, DigList(adv, "err"), <<222, 173, 190, 239>>, "truncated") }

\* the last record of a source: none, a malformed one, or one cut short
Endings(bad, cut) ==
  {[bytes |-> <<>>, kind |-> "none", digestsEnd |-> 0]}
    \cup {[bytes |-> Enc(d), kind |-> d.kind, digestsEnd |-> DigestsEnd(d)] : d \in bad}
    \cup UNION {{[bytes |-> SubSeq(Enc(d), 1, c), kind |-> d.kind,
                   digestsEnd |-> DigestsEnd(d)] : c \in Cuts(d)} : d \in cut}

RECURSIVE Concat(_)
Concat(recs) == IF recs = <<>> THEN <<>> ELSE Enc(Head(recs)) \o Concat(Tail(recs))

RECURSIVE Layout(_, _)
Layout(recs, o) ==
  IF recs = <<>> THEN <<>>
  ELSE <<[at |-> o, end |-> o + Len(Enc(Head(recs))), kind |-> Head(recs).kind,
          digestsEnd |-> o + DigestsEnd(Head(recs))]>>
         \o Layout(Tail(recs), o + Len(Enc(Head(recs))))

Source(recs, ending) ==
  LET body == Concat(recs) IN
  [src |-> body \o ending.bytes,
   gen |-> Layout(recs, 0) \o
           (IF ending.kind = "none" THEN <<>>
            ELSE <<[at |-> Len(body), end |-> Len(body) + Len(ending.bytes),
                    kind |-> ending.kind, digestsEnd |-> Len(body) + ending.digestsEnd]>>)]

\* the source g behind n bytes that are no part of the log
Behind(g, n) ==
  [src |-> Fill(n, 255) \o g.src,
   gen |-> [k \in 1..Len(g.gen) |->
              [at |-> g.gen[k].at + n, end |-> g.gen[k].end + n, kind |-> g.gen[k].kind,
               digestsEnd |-> g.gen[k].digestsEnd + n]]]

\* the offsets a source is positioned at when it is opened: the log of a source
\* without a malformed or cut last record may start behind other bytes
Starts(ending) == IF ending.kind = "none" THEN {0, MaxStart} ELSE {0}

Tuples(S) == UNION {[1..k -> S] : k \in 0..MaxRecords}

\* the records and the ending a source is built from
SourceParts ==
  {[recs |-> <<f>> \o rs, bad |-> LegacyBad, cut |-> LegacyCut] :
     f \in LegacyFirst, rs \in Tuples(LegacyValid)}
    \cup UNION {{[recs |-> <<AgileFirst(adv)>> \o rs, bad |-> AgileBad(adv),
                  cut |-> AgileCut(adv)] : rs \in Tuples(AgileValid(adv))} :
                adv \in AdvertisedChoices}
    \cup {[recs |-> <<>>, bad |-> FailingFirst, cut |-> LegacyCut]}
    \cup {[recs |-> <<f>>, bad |-> {}, cut |-> {}] : f \in NoActionFirst}
    \cup {[recs |-> rs, bad |-> {}, cut |-> {}] : rs \in EfiLogs}
    \cup {[recs |-> <<Rec(1, 0, EventTypeSeparator, Sha1Dig("norm"), LE32(0), "valid")>>,
            bad |-> WidePCRLegacy, cut |-> {}],
           [recs |-> <<AgileFirst(DefaultAdv)>>, bad |-> WidePCRAgile, cut |-> {}]}

Init ==
  /\ \E p \in SourceParts : \E e \in Endings(p.bad, p.cut) : \E n \in Starts(e) :
       LET g == Behind(Source(p.recs, e), n) IN src = g.src /\ gen = g.gen /\ off = n
  /\ copy \in {"log.go", "part_000"}
  /\ phase = "new"
  /\ log = NilLog
  /\ last = Outcome("none", "none", NoErr, NilEvent, FALSE)
  /\ callOff = off
  /\ emitted = <<>>
  /\ banks = <<>>
  /\ args = -1
  /\ exitCode = -1

Next ==
  newLogFromReader \/ newLogFromReader_0 \/ nextEventInternal \/ NextEvent_0 \/ main

Spec == Init /\ [][Next]_vars

\* ------------------------------------------------------------------ claims

\* the last call was a NextEvent that went to the stream reader
Read == last.op = "next" /\ ~last.refused

Returned == last.op = "next" /\ last.kind = "event"

Keys(event) == DOMAIN event.Digests

\* the records of a kind that the last read started at
ReadAt(kind) == {k \in 1..Len(gen) : gen[k].kind = kind /\ gen[k].at = callOff}

\* C1: once a NextEvent has returned an error other than the end-of-stream
\* sentinel, the next NextEvent (and so every later one) returns an error and no
\* event and leaves the offset of the source where it was.
StickyFailure ==
  [][(phase = "open" /\ last.op = "next" /\ last.kind = "error")
       => (last'.kind = "error" /\ last'.event = NilEvent /\ off' = off)]_vars

\* a refused call on a source that still has bytes to read
StickyFailureWitness ==
  phase = "open" /\ last.refused /\ last.kind = "error" /\ off = callOff /\ off < Len(src)

\* C2: for every PCR, the Index fields of the events returned for it are 0, 1, 2,
\* ... in the order of return, however the events of other PCRs are interleaved.
IndexOfPCR(p) == SelectSeq(emitted, LAMBDA e : e.PCRIndex = p)

EventIndexMonotonic ==
  \A p \in 0..maxPCRIndex :
    \A i \in 1..Len(IndexOfPCR(p)) : IndexOfPCR(p)[i].Index = i - 1

\* two events of PCR 0 with an event of PCR 1 between them
EventIndexWitness ==
  /\ Len(emitted) >= 3
  /\ emitted[1].PCRIndex = 0 /\ emitted[1].Index = 0
  /\ emitted[2].PCRIndex = 1 /\ emitted[2].Index = 0
  /\ emitted[3].PCRIndex = 0 /\ emitted[3].Index = 1

\* C3: a read that starts at a record the source ends in the middle of returns the
\* truncated-log error, no event and not the sentinel, and marks the log failed;
\* the NextEvent after it returns the sticky-failure error.
TruncatedRead ==
  (Read /\ ReadAt("truncated") # {})
    => (last.kind = "error" /\ isTruncatedLog(last.err) /\ last.event = NilEvent
        /\ log.failed)

\* the error of a refused call: the message itself in log.go, a read error
\* holding the message in part_000
StickyFailureError ==
  IF copy = "part_000" THEN <<"error when reading from log stream">> \o ErrFailed
  ELSE ErrFailed

TruncatedLog ==
  /\ []TruncatedRead
  /\ [][(phase = "open" /\ running' /\ last.op = "next" /\ isTruncatedLog(last.err))
          => (last'.refused /\ last'.err = StickyFailureError
              /\ ~isTruncatedLog(last'.err) /\ last'.event = NilEvent)]_vars

\* a 1.2 record cut inside its digest, where the single Read call returns the
\* bytes that are left without an error
TruncatedLogWitness ==
  /\ Read /\ log.stream = "stream_1_2" /\ isTruncatedLog(last.err) /\ log.failed
  /\ \E k \in ReadAt("truncated") : gen[k].end > callOff + 8 /\ gen[k].end < callOff + 28

\* C4: a NextEvent that returns the end-of-stream sentinel leaves the failed flag
\* clear (so that the next NextEvent returns the sentinel again).
CleanEOFNotFailure == (last.op = "next" /\ last.kind = "eof") => ~log.failed

\* C5: a returned separator is flagged as an error separator exactly when the
\* digest of some algorithm of its digest map is the hash of 01 00 00 00.
SeparatorClassification ==
  (Returned /\ last.event.EventType = EventTypeSeparator)
    => (last.event.Data.isError
          <=> \E alg \in Keys(last.event) :
                last.event.Digests[alg] = hash(errorValue, alg))

\* C6: every digest of a returned event has the registry length of its
\* algorithm.
DigestLengthIsRegistrySize ==
  Returned => \A alg \in Keys(last.event) :
                Len(last.event.Digests[alg]) = knownAlgorithms[alg]

\* C7: every event but the first of a crypto-agile log has a digest for every
\* advertised algorithm of the registry and for no algorithm outside the registry.
Advertised == {log.algSizes[j].AlgorithmId : j \in 1..Len(log.algSizes)}

AgileKeySet ==
  (Returned /\ log.stream = "stream_2" /\ Len(emitted) >= 2)
    => /\ {a \in Advertised : isKnownAlgorithm(a)} \subseteq Keys(last.event)
       /\ \A a \in Keys(last.event) : isKnownAlgorithm(a)

\* a 2.0 record of a log that advertises SHA-1 and an algorithm outside the
\* registry: both digests were consumed, SHA-1 alone is exposed
AgileKeySetWitness ==
  /\ Returned /\ log.stream = "stream_2" /\ Len(emitted) >= 2
  /\ AlgorithmSm3 \in Advertised
  /\ Keys(last.event) = {AlgorithmSha1}
  /\ \E k \in ReadAt("valid") : off = gen[k].end

\* C8 as stated: the key set of every returned event is the set Log.Algorithms.
DigestKeysEqualAlgorithms == Returned => Keys(last.event) = SeqSet(log.Algorithms)

\* C8 as amended: the key set of every returned event is the set Log.Algorithms,
\* except for the first event of a crypto-agile log, which is read with the 1.2
\* layout and always has the SHA-1 key too.
FirstOfAgileLog == log.stream = "stream_2" /\ Len(emitted) = 1

DigestKeysEqualAlgorithmsButFirst ==
  Returned => Keys(last.event) =
                SeqSet(log.Algorithms) \cup (IF FirstOfAgileLog THEN {AlgorithmSha1} ELSE {})

\* the Spec ID event of a log that advertises SHA-256 alone, after back-fill
DigestKeysWitness ==
  /\ Returned /\ FirstOfAgileLog /\ log.Algorithms = <<AlgorithmSha256>>
  /\ Keys(last.event) = {AlgorithmSha1, AlgorithmSha256}

\* C9: a returned EFI 2 Spec ID event keeps every digest read from its record
\* (the SHA-1 digest of a 1.2 record among them) and has the zero digest for every
\* other algorithm of Log.Algorithms; a Spec ID event of another spec has the
\* digests of its record and no other.
AsRead ==
  IF log.stream = "stream_1_2" \/ Len(emitted) = 1
  THEN (AlgorithmSha1 :> Slice(src, callOff + 8, 20))
  ELSE frame_2(src, callOff, log.algSizes).digests

SpecIdBackFill ==
  (Returned /\ isSpecIdEvent(last.event))
    => IF last.event.Data.Spec = SpecEFI_2
       THEN /\ Keys(last.event) = DOMAIN AsRead \cup SeqSet(log.Algorithms)
            /\ \A alg \in Keys(last.event) :
                 last.event.Digests[alg] =
                   IF alg \in DOMAIN AsRead THEN AsRead[alg] ELSE zeroDigests[alg]
       ELSE last.event.Digests = AsRead

\* the first event of a log that advertises SHA-1 and SHA-256: SHA-1 as read
\* (not zero), SHA-256 back-filled
SpecIdBackFillWitness ==
  /\ Returned /\ isSpecIdEvent(last.event) /\ last.event.Data.Spec = SpecEFI_2
  /\ FirstOfAgileLog
  /\ last.event.Digests[AlgorithmSha1] = hashOfZeroValue[AlgorithmSha1]
  /\ AlgorithmSha256 \in Keys(last.event)
  /\ last.event.Digests[AlgorithmSha256] = zeroDigests[AlgorithmSha256]

\* C10: a read of a 2.0 record whose digest list lacks an advertised algorithm
\* returns the missing-digest error and no event, leaves the source at the end
\* of the digest list and marks the log failed.
MissingDigest ==
  (Read /\ ReadAt("missing") # {})
    => /\ last.err = ErrMissingDigest /\ last.event = NilEvent /\ log.failed
       /\ \A k \in ReadAt("missing") : off = gen[k].digestsEnd

\* the record lacks the digest of an advertised algorithm outside the registry
MissingDigestWitness ==
  /\ Read /\ ReadAt("missing") # {} /\ last.err = ErrMissingDigest
  /\ Len(log.algSizes) = 2 /\ log.algSizes[2].AlgorithmId = AlgorithmSm3
  /\ off = callOff + 12 + 2 + knownAlgorithms[AlgorithmSha1]
  /\ log.failed

\* C11: a read of a 2.0 record in which an advertised algorithm has two digests
\* returns the duplicate-digest error and no event (so no digest map in which the
\* second digest took the place of the first), leaves the source behind the second
\* digest and marks the log failed.
DuplicateDigest ==
  (Read /\ ReadAt("duplicate") # {})
    => /\ last.err = ErrDuplicateDigest /\ last.kind = "error" /\ last.event = NilEvent
       /\ log.failed
       /\ \A k \in ReadAt("duplicate") : off = gen[k].digestsEnd

\* the record has a digest for every advertised algorithm and a second SHA-256
\* digest, different from the first, at its end
DuplicateDigestWitness ==
  /\ Read /\ ReadAt("duplicate") # {} /\ last.err = ErrDuplicateDigest /\ log.failed
  /\ Len(log.algSizes) = 2 /\ log.algSizes[1] = [AlgorithmId |-> AlgorithmSha256, DigestSize |-> 32]
  /\ off = callOff + 12 + (2 + 32) + (2 + 20) + (2 + 32)
  /\ Slice(src, callOff + 14, 32) # Slice(src, off - 32, 32)

\* C12: a read of a 2.0 record whose digest list has an algorithm the Spec ID event
\* did not advertise returns the unrecognised-algorithm error and no event, leaves
\* the source right behind the algorithm id (no digest byte of the entry is read)
\* and marks the log failed.
UnrecognizedAlgorithm ==
  (Read /\ ReadAt("unrecognized") # {})
    => /\ last.err = ErrUnrecognizedAlgorithm /\ last.kind = "error"
       /\ last.event = NilEvent /\ log.failed
       /\ off = callOff + 12 + 2

\* the algorithm is SHA-384, which the registry has and the log did not advertise,
\* and its digest is still unread
UnrecognizedAlgorithmWitness ==
  /\ Read /\ ReadAt("unrecognized") # {} /\ last.err = ErrUnrecognizedAlgorithm
  /\ U16Of(Slice(src, callOff + 12, 2)) = AlgorithmSha384
  /\ isKnownAlgorithm(AlgorithmSha384) /\ AlgorithmSha384 \notin Advertised
  /\ Len(log.algSizes) > 0
  /\ off = callOff + 14 /\ off + knownAlgorithms[AlgorithmSha384] < Len(src)
  /\ log.failed

\* C13: every returned event has a PCR index of 0..31; a read of a record whose
\* PCR index is above 31, by either stream reader, returns the out-of-range error
\* and no event, leaves the source right behind the PCR index field, marks the log
\* failed, and changes no per-PCR counter.
PCRIndexOfReturned == Returned => last.event.PCRIndex \in 0..maxPCRIndex

PCRIndexOutOfRangeRead ==
  (Read /\ ReadAt("pcr") # {})
    => /\ last.err = ErrPCRIndexOutOfRange /\ last.kind = "error"
       /\ last.event = NilEvent /\ log.failed
       /\ off = callOff + 4

PCRIndexRange ==
  /\ [](PCRIndexOfReturned /\ PCRIndexOutOfRangeRead)
  /\ [][(last'.op = "next" /\ ~last'.refused
          /\ \E k \in 1..Len(gen) : gen[k].kind = "pcr" /\ gen[k].at = callOff')
        => (log'.indexTracker = log.indexTracker /\ emitted' = emitted)]_vars

\* a 2.0 record with PCR index 32 after two events that set counters
PCRIndexRangeWitness ==
  /\ Read /\ ReadAt("pcr") # {} /\ last.err = ErrPCRIndexOutOfRange
  /\ log.stream = "stream_2" /\ log.readFirstEvent
  /\ U32Of(Slice(src, callOff, 4)) = maxPCRIndex + 1
  /\ off = callOff + 4 /\ off < Len(src)
  /\ Len(emitted) = 2 /\ DOMAIN log.indexTracker = {0, 1}
  /\ log.failed

\* the first record of the source, as the 1.2 layout frames it
\* where the log starts in the source
Start == IF gen = <<>> THEN 0 ELSE gen[1].at

FirstType == U32Of(Slice(src, Start + 4, 4))

FirstPayload == Slice(src, Start + 32, U32Of(Slice(src, Start + 28, 4)))

\* the first record decodes to a Spec ID event of the EFI 2 spec
FirstIsEFI2SpecId ==
  /\ FirstType = EventTypeNoAction
  /\ Len(FirstPayload) >= 16 /\ SubSeq(FirstPayload, 1, 16) = SigSpecId03
  /\ decodeEventDataNoAction(FirstPayload).err = NoErr

\* the algorithm ids of the numberOfAlgorithms pairs that follow the common header
\* of the first record's payload, in the order of the payload
FirstAdvertised ==
  [i \in 1..U32Of(Slice(FirstPayload, 24, 4)) |-> U16Of(Slice(FirstPayload, 24 + 4 * i, 2))]

\* C14: the Log open returns is bound to the 2.0 reader, with Spec EFI 2 and the
\* advertised algorithms of the registry in advertised order, when the first record
\* decodes to an EFI 2 Spec ID event; in every other case it is bound to the 1.2
\* reader with the algorithm list SHA-1.
FormatDetection ==
  phase = "open"
    => IF FirstIsEFI2SpecId
       THEN /\ log.Spec = SpecEFI_2 /\ log.stream = "stream_2"
            /\ log.Algorithms = SelectSeq(FirstAdvertised, isKnownAlgorithm)
       ELSE /\ log.stream = "stream_1_2"
            /\ log.Algorithms = <<AlgorithmSha1>>

\* open of a log that advertises an algorithm outside the registry, then SHA-1
FormatDetectionWitness ==
  /\ phase = "open" /\ last.op = "open" /\ last.kind = "ok" /\ FirstIsEFI2SpecId
  /\ FirstAdvertised = <<AlgorithmSm3, AlgorithmSha1>>
  /\ log.stream = "stream_2" /\ log.Algorithms = <<AlgorithmSha1>>
  /\ off = 0

\* C15: open of a source whose first record is a NO_ACTION event with a Spec ID
\* signature and a Spec ID structure that cannot be parsed returns the
\* invalid-Spec-ID error of the decoder and no Log.
InvalidSpecIdFatal ==
  (last.op = "open" /\ Len(gen) >= 1 /\ gen[1].kind = "invalidSpecId")
    => /\ last.kind = "error" /\ isInvalidSpecIdEventError(last.err)
       /\ phase = "openFailed" /\ log = NilLog

\* the first record has the PC Client signature and the common header and ends
\* before vendorInfoSize: the error is the one of the helper
InvalidSpecIdFatalWitness ==
  /\ last.op = "open" /\ Len(gen) >= 1 /\ gen[1].kind = "invalidSpecId"
  /\ FirstType = EventTypeNoAction
  /\ SubSeq(FirstPayload, 1, 16) = SigSpecId00
  /\ Len(FirstPayload) = 16 + 8
  /\ phase = "openFailed"
  /\ last.err = wrapSpecIdEventReadError(EOF)

\* an error whose innermost cause is the unexpected end of the source
isUnexpectedEnd(err) == Len(err) >= 1 /\ err[Len(err)] = ErrUnexpectedEOF[1]

\* the source is empty or ends inside its first record
EndsInFirstRecord ==
  src = <<>> \/ (Len(gen) = 1 /\ gen[1].kind = "truncated" /\ gen[1].at = 0)

\* C16: open of an empty source, or of a source that ends inside its first record,
\* returns an error of the unexpected end of the log and no Log; no open returns
\* the end-of-stream sentinel.
ShortSourceAtOpen ==
  last.op = "open"
    => /\ last.err # EOF
       /\ EndsInFirstRecord
            => /\ last.kind = "error" /\ isUnexpectedEnd(last.err)
               /\ phase = "openFailed" /\ log = NilLog

\* open of the empty source by log.go, whose stream reader returned the sentinel
ShortSourceAtOpenWitness ==
  /\ last.op = "open" /\ src = <<>> /\ copy = "log.go"
  /\ stream_1_2_readNextEvent(src, 0).err = EOF
  /\ last.kind = "error" /\ isTruncatedLog(last.err)
  /\ phase = "openFailed"

\* the payload of record k of the source
PayloadOf(k) == Slice(src, gen[k].digestsEnd + 4, gen[k].end - gen[k].digestsEnd - 4)

\* the last call read record k and returned its event
ReturnedRecord(k) ==
  /\ last.kind = "event" /\ ~log.failed /\ off = gen[k].end
  /\ last.event.Data.data = PayloadOf(k)
  /\ last.event.Index = Len(IndexOfPCR(last.event.PCRIndex)) - 1

\* C17: a read of a well-framed record whose payload is malformed for its event
\* type returns an event that carries the payload bytes and the decode error,
\* leaves the failed flag clear and the source at the end of the record, and gives
\* the event the next index of its PCR; the read of the record that follows it
\* returns that record's event.
SubdecoderErrorNotFatal ==
  \A k \in 1..Len(gen) :
    (Read /\ gen[k].at = callOff)
      => /\ gen[k].kind = "broken"
           => /\ ReturnedRecord(k)
              /\ last.event.Data.Error # NoErr \/ last.event.dataErr # NoErr
         /\ (k > 1 /\ gen[k - 1].kind = "broken" /\ gen[k].kind \in {"valid", "broken"})
           => ReturnedRecord(k)

\* the left fold of the claim: over the returned events of PCR p in the order of
\* return, acc -> hash(alg, acc || e.Digests[alg])
RECURSIVE ReplayFold(_, _, _, _)
ReplayFold(events, p, alg, acc) ==
  IF events = <<>> THEN acc
  ELSE ReplayFold(Tail(events), p, alg,
         IF Head(events).PCRIndex = p THEN hash(acc \o Head(events).Digests[alg], alg)
         ELSE acc)

\* the PCRs an event was returned for or a bank exists for, and the two ends of
\* the PCR range
ReplayedPCRs ==
  {emitted[i].PCRIndex : i \in 1..Len(emitted)} \cup {k[1] : k \in DOMAIN banks}
    \cup {0, maxPCRIndex}

\* C18: when the validator has processed the whole log (its last read returned
\* the end-of-stream sentinel), the bank of every PCR p and every algorithm alg of
\* the log is the left fold, over the returned events of PCR p and from the zero
\* digest of alg, of the extension with the digest recorded in the event.
ReplayPurity ==
  (phase = "open" /\ last.kind = "eof")
    => \A p \in ReplayedPCRs : \A alg \in SeqSet(log.Algorithms) :
         bankOf(banks, p, alg) = ReplayFold(emitted, p, alg, zeroDigests[alg])

\* the whole of a crypto-agile log was processed: two events of PCR 1, one of them
\* with a recorded SHA-256 digest that is not the digest of its payload
ReplayPurityWitness ==
  /\ phase = "open" /\ last.kind = "eof" /\ log.stream = "stream_2"
  /\ AlgorithmSha256 \in SeqSet(log.Algorithms)
  /\ Len(emitted) = 3 /\ Len(IndexOfPCR(1)) = 2
  /\ \E k \in 2..3 : emitted[k].Digests[AlgorithmSha256] # hash(PayloadOf(k), AlgorithmSha256)
  /\ bankOf(banks, 1, AlgorithmSha256) # zeroDigests[AlgorithmSha256]
  /\ bankOf(banks, 1, AlgorithmSha256) =
       hash(hash(zeroDigests[AlgorithmSha256] \o emitted[2].Digests[AlgorithmSha256],
                 AlgorithmSha256) \o emitted[3].Digests[AlgorithmSha256], AlgorithmSha256)

\* the variant and the Spec a signature the decoder knows dispatches to
SignatureVariant ==
  [sig \in {SigSpecId00, SigSpecId02, SigSpecId03, SigSP800155, SigStartupLocality} |->
     IF sig = SigSpecId00 THEN <<"SpecIdEventData", SpecPCClient>>
     ELSE IF sig = SigSpecId02 THEN <<"SpecIdEventData", SpecEFI_1_2>>
     ELSE IF sig = SigSpecId03 THEN <<"SpecIdEventData", SpecEFI_2>>
     ELSE IF sig = SigSP800155 THEN <<"bimReferenceManifestEventData", SpecUnknown>>
     ELSE <<"startupLocalityEventData", SpecUnknown>>]

\* the event returned for record k, a NO_ACTION record with a payload of at least
\* 16 bytes, has the data the dispatch on the signature calls for
DispatchedRecord(k) ==
  IF SubSeq(PayloadOf(k), 1, 16) \in DOMAIN SignatureVariant
  THEN gen[k].kind = "valid"
         => /\ last.event.Data.variant = SignatureVariant[SubSeq(PayloadOf(k), 1, 16)][1]
            /\ last.event.Data.Spec = SignatureVariant[SubSeq(PayloadOf(k), 1, 16)][2]
            /\ last.event.Data.data = PayloadOf(k)
  ELSE /\ last.event.Data.variant = "unknownNoActionEventData"
       /\ last.event.Data.data = PayloadOf(k)
       /\ last.event.Data.Error = NoErr /\ last.event.dataErr = NoErr
       /\ decodeEventDataNoAction(PayloadOf(k)).trailingBytes = 0

\* C19 as amended: a well-formed NO_ACTION payload that starts with one of the
\* five signatures the decoder knows decodes to the variant of that signature; a
\* payload of at least 16 bytes that starts with any other signature decodes to
\* the unknown-NO_ACTION variant with the whole payload, no trailing bytes and no
\* error.
NoActionDispatch ==
  \A k \in 1..Len(gen) :
    (Returned /\ gen[k].at = callOff /\ last.event.EventType = EventTypeNoAction
       /\ Len(PayloadOf(k)) >= 16)
      => DispatchedRecord(k)

\* signatures to tell the known ones from: the five of the decoder, a Spec ID
\* signature of a version it does not know, and sixteen zero bytes
CandidateSignatures ==
  DOMAIN SignatureVariant \cup {Sig(<<48, 49>>), Fill(16, 0)}

RecognisedSignatures ==
  {sig \in CandidateSignatures :
     decodeEventDataNoAction(sig).out.variant # "unknownNoActionEventData"}

\* C19 as stated: the dispatch above, over six recognised signatures.
NoActionDispatchOfSix ==
  \A k \in 1..Len(gen) :
    (Returned /\ gen[k].at = callOff /\ last.event.EventType = EventTypeNoAction
       /\ Len(PayloadOf(k)) >= 16)
      => (DispatchedRecord(k) /\ Cardinality(RecognisedSignatures) = 6)

\* a payload with the signature "Spec ID Event01" came back as an unknown
\* NO_ACTION event with its 18 bytes
NoActionDispatchWitness ==
  /\ Returned /\ last.event.EventType = EventTypeNoAction
  /\ Len(gen) = 1 /\ callOff = 0 /\ Len(PayloadOf(1)) = 18
  /\ SubSeq(PayloadOf(1), 1, 16) = Sig(<<48, 49>>)
  /\ last.event.Data.variant = "unknownNoActionEventData"
  /\ last.event.Data.data = PayloadOf(1)
  /\ off = gen[1].end

\* C20: every event returned from a log bound to the 1.2 reader has one digest,
\* under SHA-1, which is the 20 bytes of the digest field of its record; a Spec ID
\* event in such a log is no exception.
LegacyDigestShape ==
  (Returned /\ log.stream = "stream_1_2")
    => /\ Keys(last.event) = {AlgorithmSha1}
       /\ Len(last.event.Digests[AlgorithmSha1]) = 20
       /\ last.event.Digests[AlgorithmSha1] = Slice(src, callOff + 8, 20)

\* an EFI 2 Spec ID event that is not the first record of a legacy log: no digest
\* was back-filled
LegacyDigestShapeWitness ==
  /\ Returned /\ log.stream = "stream_1_2" /\ Len(emitted) >= 2
  /\ isSpecIdEvent(last.event) /\ last.event.Data.Spec = SpecEFI_2
  /\ Len(last.event.Data.DigestSizes) = 2
  /\ Keys(last.event) = {AlgorithmSha1}

\* the events the NextEvent of the current state may return: one for each entry
\* of the digest map the loop of classifySeparatorEvent may be handed first
PossibleEvents_0(e) ==
  {fixedUp_0(indexed(e, log.indexTracker), log.Algorithms, alg) : alg \in firstVisited(e)}

PossibleEvents ==
  IF copy = "log.go"
  THEN {fixedUp(indexed(readNextEvent(log, src, off).event, log.indexTracker), log.Algorithms)}
  ELSE PossibleEvents_0(readNextEvent_0(log, src, off).event)

\* C21: the outcome of a NextEvent is a function of the source and of the calls
\* made before it: the event a call returns is the only event the call may return
\* from that state (same PCRIndex, EventType, Index, digest map and separator
\* error flag), also for a separator of which only some digests are the hash of
\* the error value.
Determinism ==
  [][(phase = "open" /\ last'.op = "next" /\ last'.kind = "event")
       => PossibleEvents = {last'.event}]_vars

\* C22: the command line given one positional argument (the path of the log) has
\* that log validated and exits with code 1 exactly when opening or reading it
\* failed, with code 0 otherwise.
CLIExitCode ==
  (args = 1 /\ exitCode # -1)
    => (last.op # "none" /\ exitCode = (IF last.kind = "error" THEN 1 ELSE 0))

\* a successful open leaves the source at the offset it had when open was called
OpenRewinds == (last.op = "open" /\ last.kind = "ok") => off = callOff

\* the k-th event returned is the event of record k of the source: the read
\* started where the record starts, ended where it ends, and the event has the
\* PCR index, the event type and the payload of the record
ReturnsRecordsInOrder ==
  Returned =>
    /\ Len(emitted) <= Len(gen)
    /\ callOff = gen[Len(emitted)].at /\ off = gen[Len(emitted)].end
    /\ last.event.PCRIndex = U32Of(Slice(src, callOff, 4))
    /\ last.event.EventType = U32Of(Slice(src, callOff + 4, 4))
    /\ last.event.Data.data = PayloadOf(Len(emitted))

\* C23: after a successful open of a source positioned at offset o the source
\* is at o again, the first NextEvent returns the event of the record that starts
\* at o, and the k-th successful NextEvent returns the k-th record in file order.
BootstrapPositionPreserving == OpenRewinds /\ ReturnsRecordsInOrder

\* a log that starts behind other bytes, opened there and read to its third
\* record
BootstrapWitness ==
  /\ Returned /\ Len(emitted) = 3 /\ Len(gen) = 3
  /\ gen[1].at = MaxStart /\ callOff = gen[3].at /\ off = Len(src)
  /\ log.stream = "stream_2"

\* the read of this step parsed its record with the 1.2 layout, of which f is the
\* framing of the bytes at the offset of the source: the source is left where f
\* ends, and a returned event has the 20 bytes behind the event type as its SHA-1
\* digest and the payload of f
LegacyRead(f) ==
  /\ off' = f.off
  /\ last'.kind = "event" <=> f.err = NoErr
  /\ last'.kind = "event"
       => /\ last'.event.Digests[AlgorithmSha1] = Slice(src, off + 8, 20)
          /\ last'.event.Data.data = f.event

\* the read of this step parsed its record with the TCG_PCR_EVENT2 layout, of
\* which f is the framing of the bytes at the offset of the source: the source is
\* left where f ends, an error is the one of f, and a returned event has the
\* digests and the payload of f
AgileRead(f) ==
  /\ off' = f.off
  /\ last'.err = f.err
  /\ last'.kind = "event"
       => /\ last'.event.Digests = f.digests
          /\ last'.event.Data.data = f.event

\* C24: on a Log bound to the 2.0 reader the first read after open parses its
\* record with the 1.2 layout and every later read with the TCG_PCR_EVENT2
\* layout; the reader's switch is set by the first read and never cleared.
FirstEventDelegation ==
  /\ [][(phase = "open" /\ running' /\ log.stream = "stream_2"
           /\ last'.op = "next" /\ ~last'.refused)
          => /\ log'.readFirstEvent
             /\ IF last.op = "open" THEN LegacyRead(frame_1_2(src, off))
                ELSE AgileRead(frame_2(src, off, log.algSizes))]_vars
  /\ [][log.readFirstEvent => log'.readFirstEvent]_vars

\* the second read of a crypto-agile log returned the event of a record with two
\* digests, which the 1.2 layout would have framed differently
FirstEventDelegationWitness ==
  /\ Returned /\ log.stream = "stream_2" /\ log.readFirstEvent /\ Len(emitted) = 2
  /\ Cardinality(Keys(last.event)) = 2
  /\ frame_1_2(src, callOff).off # off

\* C25: every call to open or NextEvent ends by returning an event, the
\* end-of-stream sentinel or an error and never aborts, also on a crypto-agile log
\* whose Spec ID event advertises no algorithm or an algorithm outside the
\* registry first.
NoAbort == last.kind \in {"none", "ok", "event", "eof", "error"} /\ phase # "panic"

\* C26: a NextEvent that returns an error or the end-of-stream sentinel leaves
\* the per-PCR index counters as they were, and the Index of a returned event is
\* the number of events of its PCR that were returned before it.
FailingReadKeepsCounters ==
  /\ [](Returned => last.event.Index = Len(IndexOfPCR(last.event.PCRIndex)) - 1)
  /\ [][(phase = "open" /\ last'.op = "next" /\ last'.kind \in {"error", "eof"})
          => log'.indexTracker = log.indexTracker]_vars

\* a read that went to the stream reader and failed after two events of PCR 1 had
\* been returned, with the counters of PCR 0 and PCR 1 as the events left them
FailingReadWitness ==
  /\ Read /\ last.kind = "error" /\ log.failed /\ off > callOff
  /\ Len(emitted) = 3 /\ Len(IndexOfPCR(1)) = 2
  /\ log.indexTracker = (0 :> 1) @@ (1 :> 2)

\* a successful NextEvent leaves the source at the end of the record it started
\* at, behind the offset the call began at and not behind the end of the source
Advances ==
  /\ last'.kind = "event" /\ off' > off /\ off' <= Len(src)
  /\ \E k \in 1..Len(gen) : gen[k].at = off /\ gen[k].end = off'

\* C27: every NextEvent either returns an event and advances the source by the
\* length of the record it returned, or returns the end-of-stream sentinel or an
\* error; the bytes left in the source are then fewer after every successful
\* call, so that a caller who repeats NextEvent on a finite source gets the
\* sentinel or an error after finitely many calls.
ProgressAndTermination ==
  [][(phase = "open" /\ running' /\ last'.op = "next")
       => (Advances \/ last'.kind \in {"eof", "error"})]_vars

====
